---- MODULE Spec2Model ----
(***************************************************************************)
(* Verification model of the proxychain core: PortRegistry, JsonStorage,   *)
(* SelectionCache and ProxyManager (refresh / select).                     *)
(***************************************************************************)
EXTENDS Integers, Sequences, FiniteSets, TLC

\* ------------------------------------------------------------------ bounds
\* Number of ports a family's next-candidate counter may advance past its base.
MaxAllocs == 4
\* Last reading of the wall clock.
MaxClock == 2
\* Number of calls that may raise.
MaxFaults == 1
\* Number of refresh calls and of select calls in one run.
MaxRefreshes == 2
MaxSelects == 2
\* Last clock reading and number of select and of refresh calls where the
\* rotation is followed.
MaxRotationClock == 4
MaxRotationSelects == 4
MaxRotationRefreshes == 1

\* JsonStorage driven directly: save calls, load calls and crashes of a run
MaxStorageSaves == 3
MaxStorageLoads == 2
MaxStorageCrashes == 1

\* proxy_loader driven directly: the longest list of upstream entries
MaxEntries == 3

\* the read-only calls beside a refresh: the refresh calls started
MaxReaderRefreshes == 2

\* ------------------------------------------------------- program constants
\* Settings.base_socks_port, Settings.base_http_port, Settings.max_endpoints
BASE_SOCKS_PORT == 25000
BASE_HTTP_PORT == 26000
MAX_PROXY_ENDPOINTS == 500
\* Settings.cache_ttl_seconds as configured by PROXY_CACHE_TTL; the clock of the
\* model is read in units of this setting
PROXY_CACHE_TTL == 1
\* manager.EPOCH, the usage timestamp of an endpoint without an entry
EPOCH == 0
\* None in an Optional[datetime]
NoTime == -1
\* Settings.enabled_protocols
ENABLED_PROTOCOLS == <<"socks5", "http">>

\* the uids of the upstream nodes
NodeIds == {1, 2}

EmptyMap == [x \in {} |-> 0]

Put(f, k, v) == [x \in (DOMAIN f) \cup {k} |-> IF x = k THEN v ELSE f[x]]

Drop(f, k) == [x \in (DOMAIN f) \ {k} |-> f[x]]

\* no thread holds the lock
NoOwner == "nobody"

\* A faulty lock: entered whoever holds it.
LockNeverHeld(owner) == TRUE

\* `with self._lock` can be entered by another thread: nobody holds the lock
LockFree(owner) == owner = NoOwner

VARIABLES
  registry,      \* PortRegistry: _entries, _next_socks, _next_http, _dirty
  doc_ports,     \* the port-registry document on disk
  last_call,     \* the most recent PortRegistry call and what it returned
  freed,         \* the ports freed by the release calls seen in last_call (observer)
  nodes,         \* ProxyManager._nodes: uid -> ProxyNode
  endpoints,     \* ProxyManager._endpoints: endpoint id -> ProxyEndpoint
  usage,         \* ProxyManager._usage: endpoint id -> datetime
  last_refresh,  \* ProxyManager._last_refresh
  cache,         \* SelectionCache._entries: key -> CacheEntry
  doc_nodes,     \* the node-list document on disk
  doc_endpoints, \* the endpoint-list document on disk
  relays,        \* endpoint ids the relay supervisor runs a relay for
  enable_glider, \* Settings.enable_glider
  worker,        \* RefreshWorker: where its thread stands, its stop event
  reply,         \* what the most recent get_node / status / last_refresh_at call returned (observer)
  picked,        \* the live endpoint ids a select call has returned (observer)
  clock,         \* what utcnow() returns
  lock,          \* owner of ProxyManager._lock, or NoOwner
  refresher,     \* per refresh caller: position in refresh() and its locals
  selector,      \* per select caller: position in select() and its locals
  started,       \* live state and documents when each refresh call began (observer)
  last_done,     \* what the most recently finished refresh call left (observer)
  history,       \* the select calls answered since the last refresh call began (observer)
  spent,         \* calls made so far: raised, refresh started, select started
  stopped,       \* ProxyManager.shutdown() has returned (observer)
  fs,            \* one JsonStorage seen file by file: the files, its lock, its callers
  loader         \* one proxy_loader parse: the upstream entries and the nodes built

regVars == <<registry, doc_ports, last_call, freed>>

mgrVars == <<nodes, endpoints, usage, last_refresh, cache, doc_nodes, doc_endpoints,
             relays, enable_glider, worker, reply, picked, stopped, fs, loader, clock, lock, refresher, selector, started,
             last_done, history, spent>>

vars == <<registry, doc_ports, last_call, freed, nodes, endpoints, usage, last_refresh,
          cache, doc_nodes, doc_endpoints, relays, enable_glider, worker, reply, picked, stopped, fs, loader, clock, lock,
          refresher, selector, started, last_done, history, spent>>

\* ---------------------------------------------------------- JsonStorage
\* A document on disk: absent, or holding the payload of the last save.
MissingDoc == [exists |-> FALSE, data |-> EmptyMap]

\* JsonStorage.load(default)
StorageLoad(doc, default) == IF doc.exists THEN doc.data ELSE default

\* JsonStorage.save(data): write to the temp file, then rename over the path.
StorageSave(data) == [exists |-> TRUE, data |-> data]

\* ------------------------------------------- JsonStorage, file by file
\* The same class seen at the level of the files it touches: the document, the
\* temp file of save and the backup load leaves of a corrupt document.
StorageCallers == {"a", "b"}

\* the payloads the callers save (JSON values), and the one load is given as
\* its default
Payloads == {"first", "second"}

\* the payload of a document written by an earlier run
StoredPayload == "stored"

DefaultPayload == "default"

NoPayload == "nothing"

\* the name of the document
DocPath == <<"store", ".json">>

\* Path.with_suffix(self.path.suffix + extra)
WithSuffix(path, extra) == <<path[1], path[2], extra>>

\* A faulty temp path: the document itself.
TempPathInPlace(path) == path

\* line 34: temp_path = self.path.with_suffix(self.path.suffix + ".tmp")
TempPath(path) == WithSuffix(path, ".tmp")

\* line 26: backup = self.path.with_suffix(self.path.suffix + ".invalid")
BackupPath(path) == WithSuffix(path, ".invalid")

FileNames == {DocPath, WithSuffix(DocPath, ".tmp"), WithSuffix(DocPath, ".invalid")}

\* What a file holds: nothing on disk ("absent"), no byte yet ("empty"), the
\* whole text json.dump writes for a payload ("json"), a proper prefix of that
\* text ("cut"), other text that is not JSON ("text"), or bytes that are not
\* UTF-8 ("bytes").
AbsentFile == [kind |-> "absent", data |-> NoPayload]

EmptyFile == [kind |-> "empty", data |-> NoPayload]

\* json.dump(data, handle, ensure_ascii=False, indent=2), all of it written
JsonDump(data) == [kind |-> "json", data |-> data]

\* the same text after only a part of it reached the file
CutText(data) == [kind |-> "cut", data |-> data]

NotJson == [kind |-> "text", data |-> NoPayload]

NotUtf8 == [kind |-> "bytes", data |-> NoPayload]

\* handle.read() with encoding="utf-8": UnicodeDecodeError on other bytes
Utf8Decodes(file) == file.kind # "bytes"

\* json.load: the payload of a whole JSON text, JSONDecodeError otherwise
JsonDecodes(file) == file.kind = "json"

JsonLoad(file) == file.data

\* Path.rename / Path.replace where both succeed: the target holds what the
\* source held and the source is gone
Rename(files, src, dst) ==
  IF src = dst THEN files
  ELSE [name \in DOMAIN files |->
          IF name = dst THEN files[src]
          ELSE IF name = src THEN AbsentFile ELSE files[name]]

\* JsonStorage.load, lines 19-31: the files after the call, the value returned
\* and whether an exception left the call. `renames` is whether Path.rename
\* succeeds (os.rename raises FileExistsError on Windows when the backup is
\* already there; the OSError is swallowed).
FileLoad(files, default, renames) ==
  LET doc == files[DocPath]
  IN IF doc.kind = "absent"
     THEN [files |-> files, value |-> default, raised |-> FALSE]
     ELSE IF ~Utf8Decodes(doc)
          THEN [files |-> files, value |-> NoPayload, raised |-> TRUE]
          ELSE IF JsonDecodes(doc)
               THEN [files |-> files, value |-> JsonLoad(doc), raised |-> FALSE]
               ELSE [files |-> IF renames
                               THEN Rename(files, DocPath, BackupPath(DocPath))
                               ELSE files,
                     value |-> default, raised |-> FALSE]

\* whether Path.rename to the backup can fail: the backup exists already
RenameOutcomes(files) ==
  IF files[BackupPath(DocPath)].kind = "absent" THEN {TRUE} ELSE {TRUE, FALSE}

IdleStorageCall == [pc |-> "idle", data |-> NoPayload]

NoStorageCall ==
  [op |-> "none", before |-> AbsentFile, backup |-> AbsentFile,
   after |-> AbsentFile, value |-> NoPayload, raised |-> FALSE,
   crashed |-> FALSE, allowed |-> {}]

\* one storage object over files in the state `doc`, `backup`
StorageOver(doc, backup) ==
  [files |-> [name \in FileNames |->
                IF name = DocPath THEN doc
                ELSE IF name = BackupPath(DocPath) THEN backup ELSE AbsentFile],
   lock |-> NoOwner,
   call |-> [c \in StorageCallers |-> IdleStorageCall],
   done |-> IF JsonDecodes(doc) THEN JsonLoad(doc) ELSE NoPayload,
   crashed |-> FALSE, allowed |-> {},
   last |-> NoStorageCall,
   spent |-> [saves |-> 0, loads |-> 0, crashes |-> 0]]

NoFiles == StorageOver(AbsentFile, AbsentFile)

\* ---------------------------------------------------------- PortRegistry
\* _Entry.to_dict
EntryToDict(entry) == [socks |-> entry.socks_port, http |-> entry.http_port]

\* _Entry.from_dict
EntryFromDict(data) == [socks_port |-> data.socks, http_port |-> data.http]

\* PortRegistry._load
RegistryLoad(doc) ==
  LET payload == StorageLoad(doc, [next_socks |-> BASE_SOCKS_PORT,
                                   next_http |-> BASE_HTTP_PORT,
                                   entries |-> EmptyMap])
  IN [entries |-> [n \in DOMAIN payload.entries |-> EntryFromDict(payload.entries[n])],
      next_socks |-> payload.next_socks,
      next_http |-> payload.next_http, dirty |-> FALSE]

UsedSocksPorts(reg) == {reg.entries[n].socks_port : n \in DOMAIN reg.entries}

UsedHttpPorts(reg) == {reg.entries[n].http_port : n \in DOMAIN reg.entries}

\* the `while candidate in used: candidate += 1` loop
RECURSIVE ScanForward(_, _)
ScanForward(candidate, used) ==
  IF candidate \in used THEN ScanForward(candidate + 1, used) ELSE candidate

\* A faulty allocator: base port plus the number of live reservations.
NextAvailableSocksByCount(reg) ==
  LET candidate == BASE_SOCKS_PORT + Cardinality(DOMAIN reg.entries)
  IN [port |-> candidate,
      reg |-> [reg EXCEPT !.next_socks = candidate + 1, !.dirty = TRUE]]

\* A first-fit allocator for the SOCKS family: the scan starts at the base port.
NextAvailableSocksFirstFit(reg) ==
  LET candidate == ScanForward(BASE_SOCKS_PORT, UsedSocksPorts(reg))
  IN [port |-> candidate,
      reg |-> [reg EXCEPT !.next_socks = candidate + 1, !.dirty = TRUE]]

\* PortRegistry._next_available_socks: the port handed out and the registry after
NextAvailableSocks(reg) ==
  LET candidate == ScanForward(reg.next_socks, UsedSocksPorts(reg))
  IN [port |-> candidate,
      reg |-> [reg EXCEPT !.next_socks = candidate + 1, !.dirty = TRUE]]

\* A first-fit allocator: the scan starts at the base port, not at the counter.
NextAvailableHttpFirstFit(reg) ==
  LET candidate == ScanForward(BASE_HTTP_PORT, UsedHttpPorts(reg))
  IN [port |-> candidate,
      reg |-> [reg EXCEPT !.next_http = candidate + 1, !.dirty = TRUE]]

\* PortRegistry._next_available_http
NextAvailableHttp(reg) ==
  LET candidate == ScanForward(reg.next_http, UsedHttpPorts(reg))
  IN [port |-> candidate,
      reg |-> [reg EXCEPT !.next_http = candidate + 1, !.dirty = TRUE]]

\* A faulty assign: the early return for a reserved node is missing.
AssignAlwaysAllocates(reg, node_id) ==
  LET s == NextAvailableSocks(reg)
      h == NextAvailableHttp(s.reg)
      entry == [socks_port |-> s.port, http_port |-> h.port]
  IN [reg |-> [h.reg EXCEPT !.entries = Put(@, node_id, entry), !.dirty = TRUE],
      socks_port |-> s.port, http_port |-> h.port]

\* PortRegistry.assign: the registry after the call and the pair returned
Assign(reg, node_id) ==
  IF node_id \in DOMAIN reg.entries
  THEN [reg |-> reg,
        socks_port |-> reg.entries[node_id].socks_port,
        http_port |-> reg.entries[node_id].http_port]
  ELSE LET s == NextAvailableSocks(reg)
           h == NextAvailableHttp(s.reg)
           entry == [socks_port |-> s.port, http_port |-> h.port]
       IN [reg |-> [h.reg EXCEPT !.entries = Put(@, node_id, entry), !.dirty = TRUE],
           socks_port |-> s.port, http_port |-> h.port]

\* A release that rewinds the counters to the ports it frees.
ReleaseRewinds(reg, node_id) ==
  IF node_id \in DOMAIN reg.entries
  THEN [reg EXCEPT !.entries = Drop(@, node_id), !.dirty = TRUE,
                   !.next_socks = reg.entries[node_id].socks_port,
                   !.next_http = reg.entries[node_id].http_port]
  ELSE reg

\* PortRegistry.release
Release(reg, node_id) ==
  IF node_id \in DOMAIN reg.entries
  THEN [reg EXCEPT !.entries = Drop(@, node_id), !.dirty = TRUE]
  ELSE reg

\* the payload PortRegistry.save / snapshot build
Snapshot(reg) ==
  [next_socks |-> reg.next_socks, next_http |-> reg.next_http,
   entries |-> [n \in DOMAIN reg.entries |-> EntryToDict(reg.entries[n])]]

\* A save that clears the dirty flag and writes nothing.
SaveClearsOnly(reg, doc) == [reg |-> [reg EXCEPT !.dirty = FALSE], doc |-> doc]

\* PortRegistry.save: the registry and the document after the call
Save(reg, doc) ==
  IF ~reg.dirty
  THEN [reg |-> reg, doc |-> doc]
  ELSE [reg |-> [reg EXCEPT !.dirty = FALSE], doc |-> StorageSave(Snapshot(reg))]

\* the distance between the first ports of the two families
PortGap == BASE_HTTP_PORT - BASE_SOCKS_PORT

\* The cap on a next-candidate counter: MaxAllocs ports past the family's base
\* port, or, for a registry that starts PortGap reservations later, MaxAllocs
\* ports past that start.
CounterCap(counter, base) ==
  IF counter <= base + MaxAllocs THEN base + MaxAllocs
  ELSE base + PortGap + MaxAllocs

\* Room left below the cap on the next-candidate counters.
CanAllocate(reg, k) ==
  /\ reg.next_socks + k <= CounterCap(reg.next_socks, BASE_SOCKS_PORT)
  /\ reg.next_http + k <= CounterCap(reg.next_http, BASE_HTTP_PORT)

\* ------------------------------------------------------------ data model
RefreshCallers == {"worker", "trigger"}

SelectCallers == {"client"}

Range(seq) == {seq[i] : i \in 1..Len(seq)}

\* Settings.supports_protocol
SupportsProtocol == Range(ENABLED_PROTOCOLS)

\* ProxyEndpoint.id: f"{node.uid}:{protocol}"
EndpointId(uid, protocol) == <<uid, protocol>>

\* the country code derive_country gives the node with this uid ("" is None)
CountryCodeOf(uid) == IF uid = 1 THEN "US" ELSE IF uid = 2 THEN "JP" ELSE ""

\* the country name derive_country gives with that code:
\* COUNTRY_CODE_TO_NAME.get(code, code), or None with no code
CountryOf(uid) == IF uid = 1 THEN "United States" ELSE IF uid = 2 THEN "Japan" ELSE ""

\* datetime.isoformat(): the text form of an instant
IsoFormat(t) == <<"iso", t>>

\* datetime.fromisoformat
FromIsoFormat(text) == text[2]

\* JSON null
JsonNull == <<"null", NoTime>>

\* what from_dict does with one timestamp field: a string is parsed, anything
\* else (None) is kept
ParseTime(value) == IF value[1] = "iso" THEN FromIsoFormat(value) ELSE NoTime

\* ProxyNode.to_dict
NodeToDict(node) ==
  [node EXCEPT !.created_at = IsoFormat(@), !.updated_at = IsoFormat(@)]

\* ProxyNode.from_dict
NodeFromDict(data) ==
  [data EXCEPT !.created_at = ParseTime(@), !.updated_at = ParseTime(@)]

\* A faulty to_dict: last_checked is never written.
EndpointToDictUnchecked(endpoint) ==
  [endpoint EXCEPT !.created_at = IsoFormat(@), !.updated_at = IsoFormat(@),
                   !.last_checked = JsonNull]

\* ProxyEndpoint.to_dict
EndpointToDict(endpoint) ==
  [endpoint EXCEPT !.created_at = IsoFormat(@), !.updated_at = IsoFormat(@),
                   !.last_checked = IF @ # NoTime THEN IsoFormat(@) ELSE JsonNull]

\* ProxyEndpoint.from_dict
EndpointFromDict(data) ==
  [data EXCEPT !.created_at = ParseTime(@), !.updated_at = ParseTime(@),
               !.last_checked = ParseTime(@)]

\* [node.to_dict() for node in self._nodes.values()]
NodesPayload(live_nodes) == [uid \in DOMAIN live_nodes |-> NodeToDict(live_nodes[uid])]

\* [endpoint.to_dict() for endpoint in self._endpoints.values()]
EndpointsPayload(live_endpoints) ==
  [id \in DOMAIN live_endpoints |-> EndpointToDict(live_endpoints[id])]

\* ------------------------------------------------------------ proxy_loader
SUPPORTED_SCHEMAS == {"ss", "vmess"}

\* two of SUPPORTED_SS_CIPHERS, and the text of a cipher that is not in it
SUPPORTED_SS_CIPHERS == {"aes-256-gcm", "chacha20-ietf-poly1305"}

\* hashlib.sha1(uri.encode("utf-8")).hexdigest()
Sha1(uri) == <<"sha1", uri>>

\* An upstream entry of a forward file: one text line, here by its parts (what
\* it starts with, and the scheme, host, port and fragment of the URI that
\* follows "forward=").
ForwardUri(line) == <<line.scheme, "://", line.server, ":", line.port, "#", line.name>>

\* str.lower() on the scheme texts used here
SchemeLower(text) == IF text = "SS" THEN "ss" ELSE text

\* lines 153-155: `if uid in nodes: continue`, else nodes[uid] = node; the dict
\* keeps its keys in insertion order
NodesPut(found, node) ==
  IF \E i \in 1..Len(found) : found[i].uid = node.uid THEN found
  ELSE Append(found, node)

\* lines 138-149: the line is a forward directive of a supported scheme with
\* a host and a port
ForwardAccepts(line) ==
  /\ line.starts = "forward="
  /\ SchemeLower(line.scheme) \in SUPPORTED_SCHEMAS
  /\ line.server # ""
  /\ line.port > 0

\* lines 137-166, the loop over the lines with the dict built so far
RECURSIVE ForwardLoop(_, _, _)
ForwardLoop(lines, found, source) ==
  IF lines = <<>> THEN found
  ELSE LET line == Head(lines)
           uri == ForwardUri(line)
           schema == SchemeLower(line.scheme)
           skipped == ~ForwardAccepts(line)
           node == [uid |-> Sha1(uri), backend_uri |-> uri, schema |-> schema,
                    server |-> line.server, port |-> line.port,
                    name |-> line.name, source |-> source,
                    raw |-> [uri |-> uri, source |-> source]]
       IN ForwardLoop(Tail(lines),
                      IF skipped THEN found ELSE NodesPut(found, node), source)

\* _nodes_from_forward_lines(lines, source): list(nodes.values())
NodesFromForwardLines(lines, source) == ForwardLoop(lines, <<>>, source)

\* _build_backend_uri_from_clash ("" is None): the ss and the vmess form
BuildBackendUriFromClash(proxy) ==
  IF proxy.type = "ss"
  THEN IF proxy.password = "" THEN <<>>
       ELSE <<"ss://", proxy.cipher, ":", proxy.password, "@", proxy.server, ":",
              proxy.port, "#", proxy.name>>
  ELSE IF proxy.type = "vmess"
       THEN <<"vmess://none:", proxy.password, "@", proxy.server, ":", proxy.port,
              "?alterID=", 0, "#", proxy.name>>
       ELSE <<>>

\* A faulty dict insert: a later entry of the same uid replaces the node.
SeenPutLast(seen, node) ==
  IF \E i \in 1..Len(seen) : seen[i].uid = node.uid
  THEN [i \in 1..Len(seen) |-> IF seen[i].uid = node.uid THEN node ELSE seen[i]]
  ELSE Append(seen, node)

\* lines 86-87 and 104: `if uid in seen: continue`, else seen[uid] = node
SeenPut(seen, node) ==
  IF \E i \in 1..Len(seen) : seen[i].uid = node.uid THEN seen
  ELSE Append(seen, node)

\* lines 74-84: the proxy is of a supported schema, an ss proxy of a supported
\* cipher, and a backend URI can be built for it
ClashAccepts(proxy) ==
  /\ proxy.type \in SUPPORTED_SCHEMAS
  /\ proxy.type = "ss" => proxy.cipher \in SUPPORTED_SS_CIPHERS
  /\ BuildBackendUriFromClash(proxy) # <<>>

\* lines 73-104, the loop over the proxies with the dict built so far
RECURSIVE ClashLoop(_, _)
ClashLoop(proxies, seen) ==
  IF proxies = <<>> THEN seen
  ELSE LET proxy == Head(proxies)
           backend_uri == BuildBackendUriFromClash(proxy)
           skipped == ~ClashAccepts(proxy)
           node == [uid |-> Sha1(backend_uri), backend_uri |-> backend_uri,
                    schema |-> proxy.type, server |-> proxy.server,
                    port |-> proxy.port, name |-> proxy.name, source |-> "clash",
                    raw |-> proxy]
       IN ClashLoop(Tail(proxies), IF skipped THEN seen ELSE SeenPut(seen, node))

\* _load_from_clash: seen.values()
LoadFromClash(proxies) == ClashLoop(proxies, <<>>)

\* no parse made
NoParse == [source |-> "none", entries |-> <<>>, nodes |-> <<>>, parsed |-> FALSE]

\* ------------------------------------------------- ProxyManager._load_state
LoadNodesState(doc) ==
  LET stored == StorageLoad(doc, EmptyMap)
  IN [uid \in DOMAIN stored |-> NodeFromDict(stored[uid])]

LoadEndpointsState(doc) ==
  LET stored == StorageLoad(doc, EmptyMap)
  IN [id \in DOMAIN stored |-> EndpointFromDict(stored[id])]

\* self._usage.setdefault(endpoint.id, endpoint.updated_at) for every endpoint
UsageSetDefault(use, eps) ==
  [id \in (DOMAIN use) \cup (DOMAIN eps) |->
     IF id \in DOMAIN use THEN use[id] ELSE eps[id].updated_at]

\* ---------------------------------------------------- ProxyManager.refresh
\* new_nodes_list[: max_endpoints]
Truncate(list) ==
  IF MAX_PROXY_ENDPOINTS # 0 /\ Len(list) > MAX_PROXY_ENDPOINTS
  THEN SubSeq(list, 1, MAX_PROXY_ENDPOINTS)
  ELSE list

\* lines 91-97: the new node map, created_at carried over from the live node
NewNodes(list, live_nodes, now) ==
  [uid \in Range(list) |->
     [uid |-> uid, country |-> CountryOf(uid), country_code |-> CountryCodeOf(uid),
      created_at |-> IF uid \in DOMAIN live_nodes
                     THEN live_nodes[uid].created_at ELSE now,
      updated_at |-> now]]

\* lines 103-105: release the reservation of every removed node
RECURSIVE ReleaseRemoved(_, _)
ReleaseRemoved(reg, removed) ==
  IF removed = {} THEN reg
  ELSE LET n == CHOOSE x \in removed : TRUE
       IN ReleaseRemoved(Release(reg, n), removed \ {n})

\* lines 107-108: assign for every new node, in the order of the node list
RECURSIVE AssignEach(_, _)
AssignEach(acc, order) ==
  IF order = <<>> THEN acc
  ELSE LET r == Assign(acc.reg, Head(order))
       IN AssignEach(
            [reg |-> r.reg,
             ports |-> Put(acc.ports, Head(order),
                           [socks5 |-> r.socks_port, http |-> r.http_port])],
            Tail(order))

\* A faulty endpoint build: nothing is carried over from the live endpoint.
BuildEndpointFresh(node, protocol, port, live_endpoints, built_at) ==
  [id |-> EndpointId(node.uid, protocol), node_uid |-> node.uid,
   protocol |-> protocol, port |-> port, country |-> node.country,
   country_code |-> node.country_code,
   available |-> FALSE, created_at |-> built_at, updated_at |-> built_at,
   last_checked |-> NoTime]

\* lines 110-127 / 130-147: one endpoint, with created_at, available and
\* last_checked carried over from the live endpoint of the same id
BuildEndpoint(node, protocol, port, live_endpoints, built_at) ==
  LET id == EndpointId(node.uid, protocol)
      fresh == [id |-> id, node_uid |-> node.uid, protocol |-> protocol,
                port |-> port, country |-> node.country,
                country_code |-> node.country_code,
                available |-> FALSE, created_at |-> built_at,
                updated_at |-> built_at, last_checked |-> NoTime]
  IN IF id \in DOMAIN live_endpoints
     THEN [fresh EXCEPT !.created_at = live_endpoints[id].created_at,
                        !.available = live_endpoints[id].available,
                        !.last_checked = live_endpoints[id].last_checked]
     ELSE fresh

\* lines 107-147: the new endpoint map
NewEndpoints(new_nodes, ports, live_endpoints, built_at) ==
  [id \in {EndpointId(uid, p) : uid \in DOMAIN new_nodes,
                                p \in SupportsProtocol \cap {"socks5", "http"}} |->
     BuildEndpoint(new_nodes[id[1]], id[2],
                   IF id[2] = "socks5" THEN ports[id[1]].socks5 ELSE ports[id[1]].http,
                   live_endpoints, built_at)]

\* A faulty probe bookkeeping: last_checked is stamped whatever ensure answered.
AfterEnsureStampsAll(new_endpoints, alive, now) ==
  [id \in DOMAIN new_endpoints |->
     [new_endpoints[id] EXCEPT !.available = (id \in alive),
                               !.updated_at = now,
                               !.last_checked = now]]

\* lines 151-160: available, updated_at and last_checked after ensure answered
\* alive for the endpoints in `alive`
AfterEnsure(new_endpoints, alive, now) ==
  [id \in DOMAIN new_endpoints |->
     [new_endpoints[id] EXCEPT !.available = (id \in alive),
                               !.updated_at = now,
                               !.last_checked = IF id \in alive THEN now ELSE @]]

\* A faulty disabled branch: available keeps the value carried over.
AfterStopAllKeeps(new_endpoints, now) ==
  [id \in DOMAIN new_endpoints |-> [new_endpoints[id] EXCEPT !.updated_at = now]]

\* lines 163-166: the relay supervisor is disabled
AfterStopAll(new_endpoints, now) ==
  [id \in DOMAIN new_endpoints |->
     [new_endpoints[id] EXCEPT !.available = FALSE, !.updated_at = now]]

\* A refresh that keeps the usage entries of removed endpoints.
PruneUsageKeepsAll(use, live_endpoints, new_endpoints) == use

\* lines 168-170: drop the usage entries of removed endpoints
PruneUsage(use, live_endpoints, new_endpoints) ==
  [id \in (DOMAIN use) \ ((DOMAIN live_endpoints) \ (DOMAIN new_endpoints)) |-> use[id]]

\* lines 188-192
Summary(live_nodes, live_endpoints, now) ==
  [nodes |-> Cardinality(DOMAIN live_nodes),
   endpoints |-> Cardinality(DOMAIN live_endpoints), refreshed_at |-> now]

\* lines 150-160: the ensure calls in the order of new_endpoints, each with the
\* answer of the supervisor
RECURSIVE EnsureCalls(_, _)
EnsureCalls(ordered, alive) ==
  IF ordered = <<>> THEN <<>>
  ELSE <<[op |-> "ensure", ids |-> {Head(ordered)}, alive |-> Head(ordered) \in alive]>>
       \o EnsureCalls(Tail(ordered), alive)

\* A faulty bookkeeping: only the endpoints that answered alive are active.
ActiveIdsAliveOnly(calls) ==
  UNION {calls[i].ids : i \in {k \in 1..Len(calls) : calls[k].alive}}

\* line 160: active_ids once the loop of line 150 is over
ActiveIds(calls) ==
  UNION {calls[i].ids : i \in {k \in 1..Len(calls) : calls[k].op = "ensure"}}

\* lines 149-163: the calls refresh makes to the relay supervisor
GliderCalls(enabled, ordered, alive) ==
  IF enabled
  THEN LET ensured == EnsureCalls(ordered, alive)
       IN Append(ensured, [op |-> "cleanup", ids |-> ActiveIds(ensured), alive |-> FALSE])
  ELSE <<[op |-> "stop_all", ids |-> {}, alive |-> FALSE]>>

\* ------------------------------------------------------- relay supervisor
\* GliderManager.ensure: a relay is kept for the endpoint
GliderEnsure(managed, ids) == managed \cup ids

\* GliderManager.cleanup(active_ids)
GliderCleanup(managed, active_ids) == managed \cap active_ids

\* GliderManager.stop_all
GliderStopAll(managed) == {}

\* the relays managed once the supervisor has served the calls, first to last
RECURSIVE RunGlider(_, _)
RunGlider(managed, calls) ==
  IF calls = <<>> THEN managed
  ELSE RunGlider(
         CASE Head(calls).op = "ensure" -> GliderEnsure(managed, Head(calls).ids)
           [] Head(calls).op = "cleanup" -> GliderCleanup(managed, Head(calls).ids)
           [] OTHER -> GliderStopAll(managed),
         Tail(calls))

\* --------------------------------------------------------- SelectionCache
\* SelectionCache.__init__: self._ttl = max(ttl_seconds, 1)
Ttl == IF PROXY_CACHE_TTL > 1 THEN PROXY_CACHE_TTL ELSE 1

NoEntry == [endpoint_ids |-> <<>>, expires_at |-> NoTime]

\* A faulty get: the expiry of the entry is not looked at.
CacheGetNoExpiry(entries, key, now) ==
  IF key \notin DOMAIN entries
  THEN [entries |-> entries, hit |-> FALSE, entry |-> NoEntry]
  ELSE [entries |-> entries, hit |-> TRUE, entry |-> entries[key]]

\* SelectionCache.get: the entries after the call and what it returned
CacheGet(entries, key, now) ==
  IF key \notin DOMAIN entries
  THEN [entries |-> entries, hit |-> FALSE, entry |-> NoEntry]
  ELSE IF entries[key].expires_at <= now
       THEN [entries |-> Drop(entries, key), hit |-> FALSE, entry |-> NoEntry]
       ELSE [entries |-> entries, hit |-> TRUE, entry |-> entries[key]]

\* A faulty set: the entry is returned but not stored.
CacheSetDropsEntry(entries, key, endpoint_ids, now) ==
  [entries |-> entries,
   entry |-> [endpoint_ids |-> endpoint_ids, expires_at |-> now + Ttl]]

\* SelectionCache.set: the entries after the call and the entry returned
CacheSet(entries, key, endpoint_ids, now) ==
  LET entry == [endpoint_ids |-> endpoint_ids, expires_at |-> now + Ttl]
  IN [entries |-> Put(entries, key, entry), entry |-> entry]

\* A faulty invalidate: the entry stays.
CacheInvalidateKeeps(entries, key) == entries

\* SelectionCache.invalidate
CacheInvalidate(entries, key) == Drop(entries, key)

\* SelectionCache.clear
CacheClear(entries) == EmptyMap

\* ----------------------------------------------------- ProxyManager.select
\* str.strip() on the protocol and country texts the callers send
Strip(text) ==
  CASE text = " http" -> "http"
    [] text = " " -> ""
    [] OTHER -> text

\* str.lower()
StrLower(text) ==
  CASE text = "SOCKS5" -> "socks5"
    [] text = "US" -> "us"
    [] text = "JP" -> "jp"
    [] text = "United States" -> "united states"
    [] text = "Japan" -> "japan"
    [] OTHER -> text

\* str.strip().lower()
Lower(text) == StrLower(Strip(text))

\* str.upper()
Upper(text) ==
  CASE text = "us" -> "US"
    [] text = "jp" -> "JP"
    [] text = "pan" -> "PAN"
    [] text \in {"United States", "united states"} -> "UNITED STATES"
    [] text \in {"Japan", "japan"} -> "JAPAN"
    [] OTHER -> text

\* len(text) == 2
TwoLetters(text) == text \in {"US", "us", "JP", "jp"}

\* `part in text` for the texts used here
Contains(text, part) == part = "" \/ part = text \/ (text = "japan" /\ part = "pan")

\* utils.normalise_protocols
RECURSIVE NormaliseProtocols(_)
NormaliseProtocols(protocols) ==
  IF protocols = <<>> THEN <<>>
  ELSE LET item == Lower(Head(protocols))
       IN IF item = "" THEN NormaliseProtocols(Tail(protocols))
          ELSE <<item>> \o NormaliseProtocols(Tail(protocols))

\* position of a protocol text in the order of str comparison
TextRank(text) ==
  CASE text = "http" -> 1
    [] text = "https" -> 2
    [] text = "socks5" -> 3
    [] OTHER -> 4

\* sorted(protocols)
RECURSIVE Insert(_, _)
Insert(item, sorted) ==
  IF sorted = <<>> THEN <<item>>
  ELSE IF TextRank(item) <= TextRank(Head(sorted)) THEN <<item>> \o sorted
       ELSE <<Head(sorted)>> \o Insert(item, Tail(sorted))

RECURSIVE Sorted(_)
Sorted(protocols) ==
  IF protocols = <<>> THEN <<>> ELSE Insert(Head(protocols), Sorted(Tail(protocols)))

\* line 201: normalise_protocols(protocols) or list(self.settings.supports_protocol)
RequestedProtocols(protocols) ==
  IF NormaliseProtocols(protocols) # <<>> THEN NormaliseProtocols(protocols)
  ELSE ENABLED_PROTOCOLS

\* A faulty key: the protocols in the caller's order, the country as sent.
CacheKeyAsSent(protocols, country, count) ==
  <<RequestedProtocols(protocols), country, count>>

\* line 202: key = (tuple(sorted(protocols)), (country or "").lower(), int(count))
CacheKey(protocols, country, count) ==
  <<Sorted(RequestedProtocols(protocols)), StrLower(country), count>>

\* utils.COUNTRY_NAME_TO_CODE.get(text) for the texts used here ("" is None):
\* the upper-cased names of COUNTRY_CODE_TO_NAME and the aliases, "US" among them
CountryNameToCode(text) ==
  CASE text \in {"US", "UNITED STATES"} -> "US"
    [] text = "JAPAN" -> "JP"
    [] OTHER -> ""

\* A faulty filter: every endpoint matches.
MatchesAnyCountry(query, country_name, country_code) == TRUE

\* utils.matches_country(query, country_name, country_code) for a query that
\* is not None ("" is None for the name and the code)
MatchesCountry(query, country_name, country_code) ==
  IF country_name = "" /\ country_code = "" THEN FALSE
  ELSE LET query_clean == Strip(query)
           named == CountryNameToCode(Upper(query_clean))
           query_code == IF named = "" /\ TwoLetters(query_clean)
                         THEN Upper(query_clean) ELSE named
       IN IF query_clean = "" THEN TRUE
          ELSE IF query_code # "" /\ country_code # ""
               THEN query_code = country_code
          ELSE IF query_code # ""
               THEN /\ country_name # ""
                    /\ query_code = CountryNameToCode(Upper(country_name))
          ELSE \/ /\ country_name # ""
                  /\ Contains(StrLower(country_name), StrLower(query_clean))
               \/ /\ country_code # ""
                  /\ Upper(query_clean) = country_code

\* str comparison of two endpoint ids
IdLess(a, b) == a[1] < b[1] \/ (a[1] = b[1] /\ TextRank(a[2]) < TextRank(b[2]))

\* the sort key of line 223: (self._usage.get(endpoint.id, EPOCH), endpoint.id)
UsageOf(use, id) == IF id \in DOMAIN use THEN use[id] ELSE EPOCH

KeyLess(use, a, b) ==
  UsageOf(use, a) < UsageOf(use, b) \/ (UsageOf(use, a) = UsageOf(use, b) /\ IdLess(a, b))

\* A faulty order: by id alone.
RECURSIVE SortById(_, _)
SortById(ids, use) ==
  IF ids = {} THEN <<>>
  ELSE LET first == CHOOSE a \in ids : \A b \in ids \ {a} : IdLess(a, b)
       IN <<first>> \o SortById(ids \ {first}, use)

\* available.sort(key=...), least recently used first
RECURSIVE SortByUsage(_, _)
SortByUsage(ids, use) ==
  IF ids = {} THEN <<>>
  ELSE LET first == CHOOSE a \in ids : \A b \in ids \ {a} : KeyLess(use, a, b)
       IN <<first>> \o SortByUsage(ids \ {first}, use)

\* lines 211-213: the ids of the endpoints passing the protocol and country filter
Available(live_endpoints, protocols, country) ==
  {id \in DOMAIN live_endpoints :
     /\ live_endpoints[id].protocol \in Range(protocols)
     /\ country # "" => MatchesCountry(country, live_endpoints[id].country,
                                        live_endpoints[id].country_code)}

\* line 225: available[:count] if count > 0 else available
Take(ordered, count) ==
  IF count > 0
  THEN SubSeq(ordered, 1, IF count < Len(ordered) THEN count ELSE Len(ordered))
  ELSE ordered

\* the orders random.shuffle can leave `available` in
RECURSIVE Shuffles(_)
Shuffles(ids) ==
  IF ids = {} THEN {<<>>}
  ELSE UNION {{<<first>> \o rest : rest \in Shuffles(ids \ {first})} : first \in ids}

\* lines 227-228: stamp every selected endpoint
Stamp(use, selected, now) ==
  [id \in (DOMAIN use) \cup Range(selected) |->
     IF id \in Range(selected) THEN now ELSE use[id]]

NoResult == [endpoints |-> <<>>, cached |-> FALSE, cache_expires_at |-> NoTime]

\* nothing asked yet of get_node, status or last_refresh_at
\* the RefreshWorker before its thread is started: `since` is the instant its
\* current wait began, `stop` its stop event
NotStarted == [pc |-> "unstarted", since |-> NoTime, stop |-> FALSE]

NoReply == [op |-> "none", uid |-> 0, node |-> {}, nodes |-> 0, endpoints |-> 0,
            last_refresh |-> NoTime]

NoCall == [op |-> "none", node_id |-> 0, socks_port |-> 0, http_port |-> 0]

\* ------------------------------------------------------------ initial state
NoSummary == [nodes |-> 0, endpoints |-> 0, refreshed_at |-> NoTime]

IdleRefresher ==
  [pc |-> "idle", order |-> <<>>, new_nodes |-> EmptyMap, now |-> NoTime,
   new_endpoints |-> EmptyMap, glider_calls |-> <<>>, summary |-> NoSummary]

IdleSelector ==
  [pc |-> "idle", asked |-> <<>>, protocols |-> <<>>, country |-> "", count |-> 0,
   randomize |-> FALSE, key |-> <<>>, entry |-> NoEntry, idx |-> 0, acc |-> <<>>,
   result |-> NoResult, began |-> NoTime, during |-> {}]

NoSnapshot ==
  [taken |-> FALSE, nodes |-> EmptyMap, endpoints |-> EmptyMap, usage |-> EmptyMap,
   last_refresh |-> NoTime, doc_nodes |-> MissingDoc, doc_endpoints |-> MissingDoc,
   doc_ports |-> MissingDoc]

TakeSnapshot ==
  [taken |-> TRUE, nodes |-> nodes, endpoints |-> endpoints, usage |-> usage,
   last_refresh |-> last_refresh, doc_nodes |-> doc_nodes,
   doc_endpoints |-> doc_endpoints, doc_ports |-> doc_ports]

NoneDone ==
  [ok |-> FALSE, order |-> <<>>, endpoints |-> EmptyMap, next_socks |-> 0,
   next_http |-> 0]

\* A first start on an empty data directory: ProxyManager.__init__ and
\* PortRegistry.__init__ find no document.
Init ==
  /\ doc_ports = MissingDoc
  /\ doc_nodes = MissingDoc
  /\ doc_endpoints = MissingDoc
  /\ registry = RegistryLoad(doc_ports)
  /\ last_call = NoCall
  /\ freed = {}
  /\ nodes = LoadNodesState(doc_nodes)
  /\ endpoints = LoadEndpointsState(doc_endpoints)
  /\ usage = UsageSetDefault(EmptyMap, endpoints)
  /\ last_refresh = NoTime
  /\ cache = EmptyMap
  /\ relays = {}
  /\ enable_glider = TRUE
  /\ reply = NoReply
  /\ worker = NotStarted
  /\ picked = {}
  /\ clock = 1
  /\ lock = NoOwner
  /\ refresher = [t \in RefreshCallers |-> IdleRefresher]
  /\ selector = [s \in SelectCallers |-> IdleSelector]
  /\ started = [t \in RefreshCallers |-> NoSnapshot]
  /\ last_done = NoneDone
  /\ history = <<>>
  /\ spent = [faults |-> 0, refreshes |-> 0, selects |-> 0]
  /\ stopped = FALSE
  /\ fs = NoFiles
  /\ loader = NoParse

AllIdle ==
  /\ \A t \in RefreshCallers : refresher[t].pc = "idle"
  /\ \A s \in SelectCallers : selector[s].pc = "idle"

\* the selectors that hold a cache entry they have not finished resolving
Resolving(s) == selector[s].pc \in {"check", "fetch"}

\* what the refresh call of t did while a selector held a cache entry: "swap"
\* (line 173), "clear" (line 181) and, after that clear, "done" (it returned)
Observe(event, t) ==
  [s \in SelectCallers |->
     IF /\ Resolving(s)
        /\ event = "done" => <<"clear", t>> \in selector[s].during
     THEN [selector[s] EXCEPT !.during = @ \cup {<<event, t>>}]
     ELSE selector[s]]

\* what the caller of a finished select call saw, and when
Finished(me, now) ==
  [asked |-> me.asked, key |-> me.key,
   protocols |-> me.protocols, country |-> me.country, count |-> me.count,
   randomize |-> me.randomize, raised |-> me.pc = "raised",
   ids |-> [i \in 1..Len(me.result.endpoints) |-> me.result.endpoints[i].id],
   cached |-> me.result.cached, expires |-> me.result.cache_expires_at,
   began |-> me.began, at |-> now]

\* the endpoint ids returned by select calls, with those of a finished call
Picked(seen, me) ==
  IF me.pc = "returned"
  THEN seen \cup {me.result.endpoints[i].id : i \in 1..Len(me.result.endpoints)}
  ELSE seen

Record(calls, me, now) ==
  IF me.pc \in {"returned", "raised"} THEN Append(calls, Finished(me, now)) ELSE calls

\* the endpoint ids of a node list, in the order refresh builds them
RECURSIVE BuildOrder(_)
BuildOrder(order) ==
  IF order = <<>> THEN <<>>
  ELSE (IF "socks5" \in SupportsProtocol THEN <<EndpointId(Head(order), "socks5")>>
        ELSE <<>>)
       \o (IF "http" \in SupportsProtocol THEN <<EndpointId(Head(order), "http")>>
           ELSE <<>>)
       \o BuildOrder(Tail(order))

\* -------------------------------------------------------------- environment
Tick ==
  /\ clock' = clock + 1
  /\ UNCHANGED <<regVars, nodes, endpoints, usage, last_refresh, cache, doc_nodes,
                 doc_endpoints, relays, enable_glider, worker, reply, picked, stopped, fs, loader, lock, refresher, selector,
                 started, last_done, history, spent>>

\* The process ends at any point and a new one is started on the same data
\* directory: ProxyManager.__init__ with its _load_state and PortRegistry._load.
RestartAs(enabled) ==
  /\ registry' = RegistryLoad(doc_ports)
  /\ nodes' = LoadNodesState(doc_nodes)
  /\ endpoints' = LoadEndpointsState(doc_endpoints)
  /\ usage' = UsageSetDefault(EmptyMap, LoadEndpointsState(doc_endpoints))
  /\ last_refresh' = NoTime
  /\ cache' = EmptyMap
  /\ relays' = {}
  /\ lock' = NoOwner
  /\ refresher' = [t \in RefreshCallers |-> IdleRefresher]
  /\ selector' = [s \in SelectCallers |-> IdleSelector]
  /\ started' = [t \in RefreshCallers |-> NoSnapshot]
  /\ last_done' = NoneDone
  /\ history' = <<>>
  /\ last_call' = NoCall
  /\ freed' = {}
  /\ stopped' = FALSE
  /\ picked' = {}
  /\ enable_glider' = enabled
  /\ reply' = NoReply
  /\ worker' = NotStarted
  /\ UNCHANGED <<doc_ports, doc_nodes, doc_endpoints, fs, loader, clock, spent>>

\* the same settings as before
Restart == RestartAs(enable_glider)

\* ---------------------------------------------------- refresh, step by step
\* lines 82-97, before the lock: load_nodes, the truncation, now = utcnow() and
\* the created_at carry-over read from the live node map.
RefreshLoad(t, list) ==
  /\ refresher[t].pc = "idle"
  /\ CanAllocate(registry, Cardinality(Range(list) \ DOMAIN registry.entries))
  /\ refresher' = [refresher EXCEPT ![t] =
       [IdleRefresher EXCEPT !.pc = "loaded", !.order = Truncate(list),
                             !.now = clock,
                             !.new_nodes = NewNodes(Truncate(list), nodes, clock)]]
  /\ started' = [started EXCEPT ![t] = TakeSnapshot]
  /\ history' = <<>>
  /\ spent' = [spent EXCEPT !.refreshes = @ + 1]
  /\ UNCHANGED <<regVars, nodes, endpoints, usage, last_refresh, cache, doc_nodes,
                 doc_endpoints, relays, enable_glider, worker, reply, picked, stopped, fs, loader, clock, lock, selector,
                 last_done>>

\* load_nodes raises: refresh ends before it touched anything.
RefreshLoadRaises(t) ==
  /\ refresher[t].pc = "idle"
  /\ refresher' = [refresher EXCEPT ![t] = [IdleRefresher EXCEPT !.pc = "raised"]]
  /\ started' = [started EXCEPT ![t] = TakeSnapshot]
  /\ history' = <<>>
  /\ spent' = [spent EXCEPT !.faults = @ + 1, !.refreshes = @ + 1]
  /\ UNCHANGED <<regVars, nodes, endpoints, usage, last_refresh, cache, doc_nodes,
                 doc_endpoints, relays, enable_glider, worker, reply, picked, stopped, fs, loader, clock, lock, selector,
                 last_done>>

\* lines 102-147: take the lock, release the removed nodes' reservations,
\* assign for every new node and build the new endpoint map.
RefreshReconcile(t) ==
  /\ refresher[t].pc = "loaded"
  /\ LockFree(lock)
  /\ LET me == refresher[t]
         removed == (DOMAIN nodes) \ (DOMAIN me.new_nodes)
         released == ReleaseRemoved(registry, removed)
         assigned == AssignEach([reg |-> released, ports |-> EmptyMap], me.order)
     IN /\ CanAllocate(released,
                       Cardinality((DOMAIN me.new_nodes) \ DOMAIN released.entries))
        /\ registry' = assigned.reg
        /\ refresher' = [refresher EXCEPT ![t].pc = "built",
             ![t].new_endpoints =
                NewEndpoints(me.new_nodes, assigned.ports, endpoints, clock)]
  /\ lock' = t
  /\ UNCHANGED <<doc_ports, last_call, freed, nodes, endpoints, usage, last_refresh, cache,
                 doc_nodes, doc_endpoints, relays, enable_glider, worker, reply, picked, stopped, fs, loader, clock, selector,
                 started, last_done, history, spent>>

\* lines 149-166: ensure for every new endpoint, then cleanup; or stop_all when
\* the relay supervisor is disabled. `up` are the nodes whose relays answer alive.
RefreshEnsure(t, up) ==
  /\ refresher[t].pc = "built"
  /\ lock = t
  /\ up \subseteq DOMAIN refresher[t].new_nodes
  /\ LET me == refresher[t]
         ids == DOMAIN me.new_endpoints
         alive == {id \in ids : id[1] \in up}
         calls == GliderCalls(enable_glider, BuildOrder(me.order), alive)
     IN /\ relays' = RunGlider(relays, calls)
        /\ IF enable_glider
           THEN refresher' = [refresher EXCEPT ![t].pc = "ensured",
                  ![t].glider_calls = calls,
                  ![t].new_endpoints = AfterEnsure(me.new_endpoints, alive, me.now)]
           ELSE /\ up = {}
                /\ refresher' = [refresher EXCEPT ![t].pc = "ensured",
                     ![t].glider_calls = calls,
                     ![t].new_endpoints = AfterStopAll(me.new_endpoints, me.now)]
  /\ UNCHANGED <<regVars, nodes, endpoints, usage, last_refresh, cache, doc_nodes,
                 doc_endpoints, enable_glider, worker, reply, picked, stopped, fs, loader, clock, lock, selector, started,
                 last_done, history, spent>>

\* A relay-supervisor call raises after the first k endpoints were ensured: the
\* exception leaves the `with self._lock` block and refresh().
RefreshEnsureRaises(t, k) ==
  /\ refresher[t].pc = "built"
  /\ lock = t
  /\ LET ordered == BuildOrder(refresher[t].order)
     IN /\ k \in 0..Len(ordered)
        /\ ~enable_glider => k = 0
        /\ relays' = IF enable_glider
                     THEN GliderEnsure(relays, Range(SubSeq(ordered, 1, k)))
                     ELSE relays
  /\ refresher' = [refresher EXCEPT ![t].pc = "raised"]
  /\ lock' = NoOwner
  /\ spent' = [spent EXCEPT !.faults = @ + 1]
  /\ UNCHANGED <<regVars, nodes, endpoints, usage, last_refresh, cache, doc_nodes,
                 doc_endpoints, enable_glider, worker, reply, picked, stopped, fs, loader, clock, selector, started, last_done, history>>

\* lines 168-172: prune the usage table, then self._nodes = new_nodes
RefreshSwapNodes(t) ==
  /\ refresher[t].pc = "ensured"
  /\ lock = t
  /\ usage' = PruneUsage(usage, endpoints, refresher[t].new_endpoints)
  /\ nodes' = refresher[t].new_nodes
  /\ refresher' = [refresher EXCEPT ![t].pc = "nodes_swapped"]
  /\ UNCHANGED <<regVars, endpoints, last_refresh, cache, doc_nodes, doc_endpoints,
                 relays, enable_glider, worker, reply, picked, stopped, fs, loader, clock, lock, selector, started, last_done, history, spent>>

\* line 173: self._endpoints = new_endpoints
RefreshSwapEndpoints(t) ==
  /\ refresher[t].pc = "nodes_swapped"
  /\ lock = t
  /\ endpoints' = refresher[t].new_endpoints
  /\ refresher' = [refresher EXCEPT ![t].pc = "swapped"]
  /\ selector' = Observe("swap", t)
  /\ UNCHANGED <<regVars, nodes, usage, last_refresh, cache, doc_nodes,
                 doc_endpoints, relays, enable_glider, worker, reply, stopped, fs, loader, clock, lock, started,
                 last_done, history, spent>>
  /\ picked' = picked \cap DOMAIN refresher[t].new_endpoints

\* lines 174-176: self._last_refresh = now, usage defaults for the live endpoints
RefreshStamp(t) ==
  /\ refresher[t].pc = "swapped"
  /\ lock = t
  /\ last_refresh' = refresher[t].now
  /\ usage' = UsageSetDefault(usage, endpoints)
  /\ refresher' = [refresher EXCEPT ![t].pc = "stamped"]
  /\ UNCHANGED <<regVars, nodes, endpoints, cache, doc_nodes, doc_endpoints, relays,
                 enable_glider, worker, reply, picked, stopped, fs, loader, clock, lock, selector, started, last_done, history, spent>>

\* line 178: self._node_storage.save(...)
RefreshSaveNodes(t) ==
  /\ refresher[t].pc = "stamped"
  /\ lock = t
  /\ doc_nodes' = StorageSave(NodesPayload(nodes))
  /\ refresher' = [refresher EXCEPT ![t].pc = "nodes_saved"]
  /\ UNCHANGED <<regVars, nodes, endpoints, usage, last_refresh, cache,
                 doc_endpoints, relays, enable_glider, worker, reply, picked, stopped, fs, loader, clock, lock, selector,
                 started, last_done, history, spent>>

\* line 179: self._endpoint_storage.save(...)
RefreshSaveEndpoints(t) ==
  /\ refresher[t].pc = "nodes_saved"
  /\ lock = t
  /\ doc_endpoints' = StorageSave(EndpointsPayload(endpoints))
  /\ refresher' = [refresher EXCEPT ![t].pc = "endpoints_saved"]
  /\ UNCHANGED <<regVars, nodes, endpoints, usage, last_refresh, cache, doc_nodes,
                 relays, enable_glider, worker, reply, picked, stopped, fs, loader, clock, lock, selector, started, last_done, history, spent>>

\* line 180: self._port_registry.save()
RefreshSavePorts(t) ==
  /\ refresher[t].pc = "endpoints_saved"
  /\ lock = t
  /\ LET r == Save(registry, doc_ports)
     IN /\ registry' = r.reg
        /\ doc_ports' = r.doc
  /\ refresher' = [refresher EXCEPT ![t].pc = "ports_saved"]
  /\ UNCHANGED <<last_call, freed, nodes, endpoints, usage, last_refresh, cache, doc_nodes,
                 doc_endpoints, relays, enable_glider, worker, reply, picked, stopped, fs, loader, clock, lock, selector,
                 started, last_done, history, spent>>

\* JsonStorage.save raises (the temp file cannot be written or renamed) in the
\* node, endpoint or port-registry save: the document on disk stays as it was
\* and the exception leaves the `with self._lock` block and refresh().
RefreshSaveRaises(t) ==
  /\ \/ refresher[t].pc \in {"stamped", "nodes_saved"}
     \/ refresher[t].pc = "endpoints_saved" /\ registry.dirty
  /\ lock = t
  /\ refresher' = [refresher EXCEPT ![t].pc = "raised"]
  /\ lock' = NoOwner
  /\ spent' = [spent EXCEPT !.faults = @ + 1]
  /\ UNCHANGED <<regVars, nodes, endpoints, usage, last_refresh, cache, doc_nodes,
                 doc_endpoints, relays, enable_glider, worker, reply, picked, stopped, fs, loader, clock, selector, started,
                 last_done, history>>

\* line 181 and the end of the `with` block: self._cache.clear(), lock released
RefreshClearCache(t) ==
  /\ refresher[t].pc = "ports_saved"
  /\ lock = t
  /\ cache' = CacheClear(cache)
  /\ lock' = NoOwner
  /\ refresher' = [refresher EXCEPT ![t].pc = "unlocked"]
  /\ selector' = Observe("clear", t)
  /\ UNCHANGED <<regVars, nodes, endpoints, usage, last_refresh, doc_nodes,
                 doc_endpoints, relays, enable_glider, worker, reply, picked, stopped, fs, loader, clock, started, last_done, history, spent>>

\* lines 183-192, after the lock: the summary is read from the live maps
RefreshReturn(t) ==
  /\ refresher[t].pc = "unlocked"
  /\ refresher' = [refresher EXCEPT ![t].pc = "returned",
       ![t].summary = Summary(nodes, endpoints, refresher[t].now)]
  /\ selector' = Observe("done", t)
  /\ UNCHANGED <<regVars, nodes, endpoints, usage, last_refresh, cache, doc_nodes,
                 doc_endpoints, relays, enable_glider, worker, reply, picked, stopped, fs, loader, clock, lock, started,
                 last_done, history, spent>>

\* The caller has the summary or the exception; the call is over.
RefreshExit(t) ==
  /\ refresher[t].pc \in {"returned", "raised"}
  /\ last_done' = IF refresher[t].pc = "returned"
                  THEN [ok |-> TRUE, order |-> refresher[t].order,
                        endpoints |-> refresher[t].new_endpoints,
                        next_socks |-> registry.next_socks,
                        next_http |-> registry.next_http]
                  ELSE NoneDone
  /\ refresher' = [refresher EXCEPT ![t] = IdleRefresher]
  /\ started' = [started EXCEPT ![t] = NoSnapshot]
  /\ UNCHANGED <<regVars, nodes, endpoints, usage, last_refresh, cache, doc_nodes,
                 doc_endpoints, relays, enable_glider, worker, reply, picked, stopped, fs, loader, clock, lock, selector,
                 history, spent>>

\* ----------------------------------------------------------------- shutdown
\* main.on_shutdown, lines 60-63: the worker's stop flag is set, join waits at
\* most 5 seconds for it, then ProxyManager.shutdown() (lines 256-258) calls
\* self._glider.stop_all() without taking the lock. A refresh call that has not
\* finished by then goes on.
Shutdown ==
  /\ ~stopped
  /\ relays' = GliderStopAll(relays)
  /\ stopped' = TRUE
  /\ UNCHANGED <<regVars, nodes, endpoints, usage, last_refresh, cache, doc_nodes,
                 doc_endpoints, enable_glider, worker, reply, picked, fs, loader, clock, lock, refresher,
                 selector, started, last_done, history, spent>>

\* ----------------------------------------------------- select, step by step
\* lines 201-205: the key, and in non-random mode the cache lookup
SelectStart(s, protocols, country, count, randomize) ==
  /\ selector[s].pc = "idle"
  /\ LET key == CacheKey(protocols, country, count)
         got == CacheGet(cache, key, clock)
         me == [IdleSelector EXCEPT !.asked = protocols,
                                    !.protocols = RequestedProtocols(protocols),
                                    !.country = country, !.count = count,
                                    !.randomize = randomize, !.key = key,
                                    !.began = clock]
     IN IF randomize
        THEN /\ selector' = [selector EXCEPT ![s] = [me EXCEPT !.pc = "miss"]]
             /\ cache' = cache
        ELSE /\ cache' = got.entries
             /\ selector' = [selector EXCEPT ![s] =
                  IF got.hit
                  THEN [me EXCEPT !.pc = "check", !.entry = got.entry, !.idx = 1]
                  ELSE [me EXCEPT !.pc = "miss"]]
  /\ UNCHANGED <<regVars, nodes, endpoints, usage, last_refresh, doc_nodes,
                 doc_endpoints, relays, enable_glider, worker, reply, picked, stopped, fs, loader, clock, lock, refresher,
                 started, last_done, history>>
  /\ spent' = [spent EXCEPT !.selects = @ + 1]

\* line 207-208 with the test of line 207 left out: an empty resolution is
\* returned as a cached answer
AfterResolveNeverFalls(me) ==
  IF me.idx <= Len(me.entry.endpoint_ids) THEN [me EXCEPT !.pc = "check"]
  ELSE [me EXCEPT !.pc = "returned",
                  !.result = [endpoints |-> me.acc, cached |-> TRUE,
                              cache_expires_at |-> me.entry.expires_at]]

\* line 207-208 once the comprehension of line 206 is exhausted
AfterResolve(me) ==
  IF me.idx <= Len(me.entry.endpoint_ids) THEN [me EXCEPT !.pc = "check"]
  ELSE IF me.acc # <<>>
       THEN [me EXCEPT !.pc = "returned",
                       !.result = [endpoints |-> me.acc, cached |-> TRUE,
                                   cache_expires_at |-> me.entry.expires_at]]
       ELSE [me EXCEPT !.pc = "miss"]

\* line 206, the filter of one id: `endpoint_id in self._endpoints`, read
\* without the lock
SelectResolveCheck(s) ==
  /\ selector[s].pc = "check"
  /\ LET me == selector[s]
         id == me.entry.endpoint_ids[me.idx]
     IN selector' = [selector EXCEPT ![s] =
          IF me.idx > Len(me.entry.endpoint_ids) THEN AfterResolve(me)
          ELSE IF id \in DOMAIN endpoints THEN [me EXCEPT !.pc = "fetch"]
               ELSE AfterResolve([me EXCEPT !.idx = @ + 1])]
  /\ history' = Record(history, selector'[s], clock)
  /\ UNCHANGED <<regVars, nodes, endpoints, usage, last_refresh, cache, doc_nodes,
                 doc_endpoints, relays, enable_glider, worker, reply, stopped, fs, loader, clock, lock, refresher,
                 started, last_done, spent>>
  /\ picked' = Picked(picked, selector'[s])

\* line 206, the element of one id: `self._endpoints[endpoint_id]`, a second
\* read of the live map; a KeyError when the id has gone in between
SelectResolveFetch(s) ==
  /\ selector[s].pc = "fetch"
  /\ LET me == selector[s]
         id == me.entry.endpoint_ids[me.idx]
     IN selector' = [selector EXCEPT ![s] =
          IF id \in DOMAIN endpoints
          THEN AfterResolve([me EXCEPT !.acc = Append(@, endpoints[id]),
                                       !.idx = @ + 1])
          ELSE [me EXCEPT !.pc = "raised"]]
  /\ history' = Record(history, selector'[s], clock)
  /\ UNCHANGED <<regVars, nodes, endpoints, usage, last_refresh, cache, doc_nodes,
                 doc_endpoints, relays, enable_glider, worker, reply, stopped, fs, loader, clock, lock, refresher,
                 started, last_done, spent>>
  /\ picked' = Picked(picked, selector'[s])

\* lines 223-238 for the candidates in the order `ordered`
Selected(me, ordered, now) ==
  LET selected == Take(ordered, me.count)
      stored == CacheSet(cache, me.key, selected, now)
  IN [usage |-> Stamp(usage, selected, now),
      cache |-> IF me.randomize THEN cache ELSE stored.entries,
      result |-> [endpoints |-> [i \in 1..Len(selected) |-> endpoints[selected[i]]],
                  cached |-> FALSE,
                  cache_expires_at |-> IF me.randomize THEN NoTime
                                       ELSE stored.entry.expires_at]]

\* lines 210-238, under the lock: filter, order, take, stamp, store
SelectMiss(s, shuffled) ==
  /\ selector[s].pc = "miss"
  /\ LockFree(lock)
  /\ LET me == selector[s]
         available == Available(endpoints, me.protocols, me.country)
     IN IF available = {}
        THEN /\ shuffled = <<>>
             /\ cache' = IF me.randomize THEN cache ELSE CacheInvalidate(cache, me.key)
             /\ usage' = usage
             /\ selector' = [selector EXCEPT ![s].pc = "returned",
                                             ![s].result = NoResult]
        ELSE /\ IF me.randomize THEN shuffled \in Shuffles(available)
                ELSE shuffled = SortByUsage(available, usage)
             /\ LET out == Selected(me, shuffled, clock)
                IN /\ usage' = out.usage
                   /\ cache' = out.cache
                   /\ selector' = [selector EXCEPT ![s].pc = "returned",
                                                   ![s].result = out.result]
  /\ history' = Record(history, selector'[s], clock)
  /\ UNCHANGED <<regVars, nodes, endpoints, last_refresh, doc_nodes, doc_endpoints,
                 relays, enable_glider, worker, reply, stopped, fs, loader, clock, lock, refresher, started, last_done,
                 spent>>
  /\ picked' = Picked(picked, selector'[s])

\* The caller has the SelectionResult or the exception; the call is over.
SelectExit(s) ==
  /\ selector[s].pc \in {"returned", "raised"}
  /\ selector' = [selector EXCEPT ![s] = IdleSelector]
  /\ UNCHANGED <<regVars, nodes, endpoints, usage, last_refresh, cache, doc_nodes,
                 doc_endpoints, relays, enable_glider, worker, reply, picked, stopped, fs, loader, clock, lock, refresher,
                 started, last_done, history, spent>>

\* ------------------------------------------------------------ specifications
\* the node lists load_nodes can return over the uids `universe`: every
\* arrangement of every subset (the loaders deduplicate by uid)
NodeLists(universe) == UNION {Shuffles(subset) : subset \in SUBSET universe}

\* the orders `available` can be in when the selection is made
Orders(s) ==
  LET available == Available(endpoints, selector[s].protocols, selector[s].country)
  IN IF available = {} THEN {<<>>}
     ELSE IF selector[s].randomize THEN Shuffles(available)
          ELSE {SortByUsage(available, usage)}

\* the calls still within the bounds of a run
MayRefresh == spent.refreshes < MaxRefreshes

MayRaise == spent.faults < MaxFaults

MaySelect == spent.selects < MaxSelects

MayTick == clock < MaxClock

\* the select calls of the sequential specification
SeqSelects ==
  {[protocols |-> <<"socks5">>, country |-> "", count |-> 1, randomize |-> FALSE],
   [protocols |-> <<>>, country |-> "US", count |-> 0, randomize |-> FALSE],
   [protocols |-> <<"http">>, country |-> "", count |-> 1, randomize |-> TRUE]}

\* the steps of a refresh call in which nothing raises
RefreshSteps(t) ==
  \/ RefreshReconcile(t)
  \/ \E up \in SUBSET DOMAIN refresher[t].new_nodes : RefreshEnsure(t, up)
  \/ RefreshSwapNodes(t)
  \/ RefreshSwapEndpoints(t)
  \/ RefreshStamp(t)
  \/ RefreshSaveNodes(t)
  \/ RefreshSaveEndpoints(t)
  \/ RefreshSavePorts(t)
  \/ RefreshClearCache(t)
  \/ RefreshReturn(t)
  \/ RefreshExit(t)

\* the ways a refresh call raises
RefreshFaults(t) ==
  \/ AllIdle /\ MayRefresh /\ MayRaise /\ RefreshLoadRaises(t)
  \/ \E k \in 0..(2 * Cardinality(NodeIds)) : MayRaise /\ RefreshEnsureRaises(t, k)
  \/ MayRaise /\ RefreshSaveRaises(t)

SelectSteps(s) ==
  \/ SelectResolveCheck(s)
  \/ SelectResolveFetch(s)
  \/ \E shuffled \in Orders(s) : SelectMiss(s, shuffled)
  \/ SelectExit(s)

\* Refresh and select calls made one at a time (a call starts only when no
\* other call is in flight), no call raising.
Next ==
  \/ MayTick /\ Tick
  \/ \E list \in NodeLists(NodeIds) :
       AllIdle /\ MayRefresh /\ RefreshLoad("trigger", list)
  \/ RefreshSteps("trigger")
  \/ \E p \in SeqSelects :
       /\ AllIdle /\ MaySelect
       /\ SelectStart("client", p.protocols, p.country, p.count, p.randomize)
  \/ SelectSteps("client")

Spec == Init /\ [][Next]_vars

\* Refresh calls made one at a time, where a call may raise and the process
\* may be killed and started again at any point.
NextFaults ==
  \/ MayTick /\ Tick
  \/ Restart
  \/ \E list \in NodeLists(NodeIds) :
       AllIdle /\ MayRefresh /\ RefreshLoad("trigger", list)
  \/ RefreshSteps("trigger")
  \/ RefreshFaults("trigger")

SpecFaults == Init /\ [][NextFaults]_vars

\* the select calls of the concurrent specification
ConcSelects ==
  {[protocols |-> <<"socks5">>, country |-> "", count |-> 1, randomize |-> FALSE]}

\* the uids of the upstream nodes of the concurrent specification
ConcNodeIds == {1}

\* The background worker and an explicit trigger refresh while a client
\* selects; the threads interleave at every step, no call raising.
NextConc ==
  \/ MayTick /\ Tick
  \/ \E t \in RefreshCallers : \E list \in NodeLists(ConcNodeIds) :
       MayRefresh /\ RefreshLoad(t, list)
  \/ \E t \in RefreshCallers : RefreshSteps(t)
  \/ \E s \in SelectCallers : \E p \in ConcSelects :
       MaySelect /\ SelectStart(s, p.protocols, p.country, p.count, p.randomize)
  \/ \E s \in SelectCallers : SelectSteps(s)

SpecConc == Init /\ [][NextConc]_vars

\* the select call repeated to follow the rotation
RotationSelects ==
  {[protocols |-> <<"socks5">>, country |-> "", count |-> 1, randomize |-> FALSE]}

\* the uids of the upstream nodes where the rotation is followed
RotationNodeIds == {1, 2, 3}

\* One select call repeated, between refreshes of up to three nodes whose relays
\* all answer alive, one call at a time, over a longer stretch of the clock.
NextRotation ==
  \/ clock < MaxRotationClock /\ Tick
  \/ \E list \in NodeLists(RotationNodeIds) :
       /\ AllIdle /\ spent.refreshes < MaxRotationRefreshes
       /\ RefreshLoad("trigger", list)
  \/ RefreshReconcile("trigger")
  \/ RefreshEnsure("trigger", DOMAIN refresher["trigger"].new_nodes)
  \/ RefreshSwapNodes("trigger")
  \/ RefreshSwapEndpoints("trigger")
  \/ RefreshStamp("trigger")
  \/ RefreshSaveNodes("trigger")
  \/ RefreshSaveEndpoints("trigger")
  \/ RefreshSavePorts("trigger")
  \/ RefreshClearCache("trigger")
  \/ RefreshReturn("trigger")
  \/ RefreshExit("trigger")
  \/ \E p \in RotationSelects :
       /\ AllIdle /\ spent.selects < MaxRotationSelects
       /\ SelectStart("client", p.protocols, p.country, p.count, p.randomize)
  \/ SelectSteps("client")

SpecRotation == Init /\ [][NextRotation]_vars

\* The application is shut down while the background worker refreshes: the
\* worker starts no refresh call once its stop flag is set, a call in flight
\* runs to its end.
NextShutdown ==
  \/ \E list \in NodeLists(NodeIds) :
       /\ ~stopped /\ AllIdle /\ MayRefresh
       /\ RefreshLoad("worker", list)
  \/ RefreshSteps("worker")
  \/ Shutdown

SpecShutdown == Init /\ [][NextShutdown]_vars

\* the select calls that filter by country: the code in both cases, a country
\* name, and a text that is neither
CountrySelects ==
  {[protocols |-> <<>>, country |-> c, count |-> 0, randomize |-> FALSE] :
     c \in {"US", "us", "Japan", "pan"}}

\* the uids of the upstream nodes the country filter is followed over: one in
\* the United States, one in Japan, one whose country derive_country cannot tell
CountryNodeIds == {1, 2, 3}

\* Select calls with a country filter after a refresh of up to three nodes
\* whose relays all answer alive, one call at a time.
NextCountry ==
  \/ MayTick /\ Tick
  \/ \E list \in NodeLists(CountryNodeIds) :
       /\ AllIdle /\ spent.refreshes < MaxRotationRefreshes
       /\ RefreshLoad("trigger", list)
  \/ RefreshReconcile("trigger")
  \/ RefreshEnsure("trigger", DOMAIN refresher["trigger"].new_nodes)
  \/ RefreshSwapNodes("trigger")
  \/ RefreshSwapEndpoints("trigger")
  \/ RefreshStamp("trigger")
  \/ RefreshSaveNodes("trigger")
  \/ RefreshSaveEndpoints("trigger")
  \/ RefreshSavePorts("trigger")
  \/ RefreshClearCache("trigger")
  \/ RefreshReturn("trigger")
  \/ RefreshExit("trigger")
  \/ \E p \in CountrySelects :
       /\ AllIdle /\ MaySelect
       /\ SelectStart("client", p.protocols, p.country, p.count, p.randomize)
  \/ SelectSteps("client")

SpecCountry == Init /\ [][NextCountry]_vars

\* Refresh and select calls of one upstream node made one at a time, where a
\* save of refresh may raise: the live maps are swapped by then and the cache
\* is not cleared.
NextStale ==
  \/ MayTick /\ Tick
  \/ \E list \in NodeLists(ConcNodeIds) :
       AllIdle /\ MayRefresh /\ RefreshLoad("trigger", list)
  \/ RefreshSteps("trigger")
  \/ MayRaise /\ RefreshSaveRaises("trigger")
  \/ \E p \in SeqSelects :
       /\ AllIdle /\ MaySelect
       /\ SelectStart("client", p.protocols, p.country, p.count, p.randomize)
  \/ SelectSteps("client")

SpecStale == Init /\ [][NextStale]_vars

\* ---------------------------------------------- JsonStorage driven directly
notFs == <<regVars, nodes, endpoints, usage, last_refresh, cache, doc_nodes,
           doc_endpoints, relays, enable_glider, worker, reply, picked, stopped, loader, clock, lock,
           refresher, selector, started, last_done, history, spent>>

\* the states the data directory can be found in when the process starts: no
\* document, a whole document, or a corrupt one; with or without the backup of
\* an earlier corrupt document
StartFiles ==
  {StorageOver(doc, backup) :
     doc \in {AbsentFile, JsonDump(StoredPayload), CutText(StoredPayload),
              EmptyFile, NotJson, NotUtf8},
     backup \in {AbsentFile, NotJson}}

InitStorage ==
  /\ doc_ports = MissingDoc
  /\ doc_nodes = MissingDoc
  /\ doc_endpoints = MissingDoc
  /\ registry = RegistryLoad(doc_ports)
  /\ last_call = NoCall
  /\ freed = {}
  /\ nodes = EmptyMap
  /\ endpoints = EmptyMap
  /\ usage = EmptyMap
  /\ last_refresh = NoTime
  /\ cache = EmptyMap
  /\ relays = {}
  /\ enable_glider = TRUE
  /\ reply = NoReply
  /\ worker = NotStarted
  /\ picked = {}
  /\ clock = 1
  /\ lock = NoOwner
  /\ refresher = [t \in RefreshCallers |-> IdleRefresher]
  /\ selector = [s \in SelectCallers |-> IdleSelector]
  /\ started = [t \in RefreshCallers |-> NoSnapshot]
  /\ last_done = NoneDone
  /\ history = <<>>
  /\ spent = [faults |-> 0, refreshes |-> 0, selects |-> 0]
  /\ stopped = FALSE
  /\ loader = NoParse
  /\ fs \in StartFiles

\* save is called: line 34, then the caller waits for the storage's lock
SaveBegin(c, data) ==
  /\ fs.call[c].pc = "idle"
  /\ fs' = [fs EXCEPT !.call[c] = [pc |-> "called", data |-> data],
                      !.crashed = FALSE, !.spent.saves = @ + 1]
  /\ UNCHANGED notFs

\* line 35: with self._lock
SaveLock(c) ==
  /\ fs.call[c].pc = "called"
  /\ LockFree(fs.lock)
  /\ fs' = [fs EXCEPT !.call[c].pc = "locked", !.lock = c]
  /\ UNCHANGED notFs

\* line 36: temp_path.open("w") creates the temp file or truncates it
SaveOpen(c) ==
  /\ fs.call[c].pc = "locked"
  /\ fs' = [fs EXCEPT !.call[c].pc = "open", !.files[TempPath(DocPath)] = EmptyFile]
  /\ UNCHANGED notFs

\* line 37: a part of the text json.dump produces has reached the temp file
SaveWrite(c) ==
  /\ fs.call[c].pc = "open"
  /\ fs' = [fs EXCEPT !.call[c].pc = "writing",
                      !.files[TempPath(DocPath)] = CutText(fs.call[c].data)]
  /\ UNCHANGED notFs

\* the end of the inner `with`: the whole text is in the temp file, closed
SaveClose(c) ==
  /\ fs.call[c].pc \in {"open", "writing"}
  /\ fs' = [fs EXCEPT !.call[c].pc = "closed",
                      !.files[TempPath(DocPath)] = JsonDump(fs.call[c].data)]
  /\ UNCHANGED notFs

\* line 38 and the end of the outer `with`: temp_path.replace(self.path), the
\* lock is released and save returns
SaveReplace(c) ==
  /\ fs.call[c].pc = "closed"
  /\ LET files == Rename(fs.files, TempPath(DocPath), DocPath)
     IN fs' = [fs EXCEPT !.files = files, !.lock = NoOwner,
                         !.call[c] = IdleStorageCall,
                         !.done = fs.call[c].data,
                         !.last = [NoStorageCall EXCEPT !.op = "save",
                                     !.before = fs.files[DocPath],
                                     !.after = files[DocPath],
                                     !.value = fs.call[c].data]]
  /\ UNCHANGED notFs

\* load(default), lines 17-31, the whole call under the storage's lock
LoadCall(renames) ==
  /\ LockFree(fs.lock)
  /\ LET r == FileLoad(fs.files, DefaultPayload, renames)
     IN fs' = [fs EXCEPT !.files = r.files,
                         !.last = [op |-> "load", before |-> fs.files[DocPath],
                                   backup |-> r.files[BackupPath(DocPath)],
                                   after |-> r.files[DocPath],
                                   value |-> r.value, raised |-> r.raised,
                                   crashed |-> fs.crashed, allowed |-> fs.allowed],
                         !.spent.loads = @ + 1]
  /\ UNCHANGED notFs

\* The process is killed: every call in flight is gone with its lock, the
\* files stay as they are. `allowed` keeps what the claim lets a later load
\* return: the payload of the last save that returned (or of the document found
\* at the start) and the payloads of the save calls in flight.
Crash ==
  /\ fs' = [fs EXCEPT !.call = [c \in StorageCallers |-> IdleStorageCall],
                      !.lock = NoOwner, !.crashed = (fs.done # NoPayload),
                      !.allowed = {fs.done} \cup
                                  {fs.call[c].data :
                                     c \in {x \in StorageCallers :
                                              fs.call[x].pc # "idle"}},
                      !.spent.crashes = @ + 1]
  /\ UNCHANGED notFs

\* Two threads save through one storage object, loads come in between, and
\* the process may be killed at any step.
NextStorage ==
  \/ \E c \in StorageCallers : \E data \in Payloads :
       fs.spent.saves < MaxStorageSaves /\ SaveBegin(c, data)
  \/ \E c \in StorageCallers : SaveLock(c)
  \/ \E c \in StorageCallers : SaveOpen(c)
  \/ \E c \in StorageCallers : SaveWrite(c)
  \/ \E c \in StorageCallers : SaveClose(c)
  \/ \E c \in StorageCallers : SaveReplace(c)
  \/ \E renames \in RenameOutcomes(fs.files) :
       fs.spent.loads < MaxStorageLoads /\ LoadCall(renames)
  \/ fs.spent.crashes < MaxStorageCrashes /\ Crash

SpecStorage == InitStorage /\ [][NextStorage]_vars

\* --------------------------------------------- proxy_loader driven directly
notLoader == <<regVars, nodes, endpoints, usage, last_refresh, cache, doc_nodes,
               doc_endpoints, relays, enable_glider, worker, reply, picked, stopped, fs, clock, lock,
               refresher, selector, started, last_done, history, spent>>

\* the lines of a forward file: two directives, the first of them again with
\* its scheme in upper case, a comment, a directive of a scheme that is not
\* supported and one without a port
ForwardLines ==
  LET line == [starts |-> "forward=", scheme |-> "ss", server |-> "a.example",
               port |-> 8388, name |-> "US-1"]
  IN {line,
      [line EXCEPT !.server = "b.example", !.name = "JP-1"],
      [line EXCEPT !.scheme = "SS"],
      [line EXCEPT !.starts = "#"],
      [line EXCEPT !.scheme = "http"],
      [line EXCEPT !.port = 0]}

\* the entries of a Clash proxies list: an ss proxy, the same proxy with
\* another option (the same backend URI), a vmess proxy, an ss proxy of a
\* cipher that is not supported, a proxy of another type and an ss proxy
\* without password
ClashProxies ==
  LET proxy == [type |-> "ss", cipher |-> "aes-256-gcm", password |-> "secret",
                server |-> "a.example", port |-> 8388, name |-> "US-1",
                udp |-> TRUE]
  IN {proxy,
      [proxy EXCEPT !.udp = FALSE],
      [proxy EXCEPT !.type = "vmess", !.server = "b.example", !.name = "JP-1"],
      [proxy EXCEPT !.cipher = "rc4-md5"],
      [proxy EXCEPT !.type = "trojan"],
      [proxy EXCEPT !.password = ""]}

\* every list of at most MaxEntries entries
EntryLists(entries) == UNION {[1..k -> entries] : k \in 0..MaxEntries}

InitLoader ==
  /\ doc_ports = MissingDoc
  /\ doc_nodes = MissingDoc
  /\ doc_endpoints = MissingDoc
  /\ registry = RegistryLoad(doc_ports)
  /\ last_call = NoCall
  /\ freed = {}
  /\ nodes = EmptyMap
  /\ endpoints = EmptyMap
  /\ usage = EmptyMap
  /\ last_refresh = NoTime
  /\ cache = EmptyMap
  /\ relays = {}
  /\ enable_glider = TRUE
  /\ reply = NoReply
  /\ worker = NotStarted
  /\ picked = {}
  /\ clock = 1
  /\ lock = NoOwner
  /\ refresher = [t \in RefreshCallers |-> IdleRefresher]
  /\ selector = [s \in SelectCallers |-> IdleSelector]
  /\ started = [t \in RefreshCallers |-> NoSnapshot]
  /\ last_done = NoneDone
  /\ history = <<>>
  /\ spent = [faults |-> 0, refreshes |-> 0, selects |-> 0]
  /\ stopped = FALSE
  /\ fs = NoFiles
  /\ loader \in {[NoParse EXCEPT !.source = "forward", !.entries = list] :
                   list \in EntryLists(ForwardLines)}
                \cup {[NoParse EXCEPT !.source = "clash", !.entries = list] :
                        list \in EntryLists(ClashProxies)}

\* _load_from_forward_config: the lines of the file through
\* _nodes_from_forward_lines
ParseForward ==
  /\ loader.source = "forward" /\ ~loader.parsed
  /\ loader' = [loader EXCEPT
                  !.nodes = NodesFromForwardLines(loader.entries, "forward_config"),
                  !.parsed = TRUE]
  /\ UNCHANGED notLoader

\* _load_from_clash over the proxies of the file
ParseClash ==
  /\ loader.source = "clash" /\ ~loader.parsed
  /\ loader' = [loader EXCEPT !.nodes = LoadFromClash(loader.entries),
                              !.parsed = TRUE]
  /\ UNCHANGED notLoader

NextLoader ==
  \/ ParseForward
  \/ ParseClash

SpecLoader == InitLoader /\ [][NextLoader]_vars

\* ------------------------------------------- PortRegistry driven directly
InitReg == Init

AssignCall(n) ==
  /\ n \in DOMAIN registry.entries \/ CanAllocate(registry, 1)
  /\ LET r == Assign(registry, n)
     IN /\ registry' = r.reg
        /\ last_call' = [op |-> "assign", node_id |-> n,
                         socks_port |-> r.socks_port, http_port |-> r.http_port]
  /\ UNCHANGED <<doc_ports, freed, mgrVars>>

ReleaseCall(n) ==
  /\ registry' = Release(registry, n)
  /\ last_call' = [NoCall EXCEPT !.op = "release", !.node_id = n]
  /\ freed' = freed \cup (UsedSocksPorts(registry) \ UsedSocksPorts(registry'))
                   \cup (UsedHttpPorts(registry) \ UsedHttpPorts(registry'))
  /\ UNCHANGED <<doc_ports, mgrVars>>

SaveCall ==
  /\ LET r == Save(registry, doc_ports)
     IN /\ registry' = r.reg
        /\ doc_ports' = r.doc
  /\ last_call' = [NoCall EXCEPT !.op = "save"]
  /\ UNCHANGED <<freed, mgrVars>>

\* A new PortRegistry object constructed over the same document.
ReloadCall ==
  /\ registry' = RegistryLoad(doc_ports)
  /\ last_call' = [NoCall EXCEPT !.op = "reload"]
  /\ freed' = {}
  /\ UNCHANGED <<doc_ports, mgrVars>>

\* the node ids the registry is driven with
RegistryNodeIds == {1, 2, 3}

NextReg ==
  \/ \E n \in RegistryNodeIds : AssignCall(n)
  \/ \E n \in RegistryNodeIds : ReleaseCall(n)
  \/ SaveCall
  \/ ReloadCall

SpecReg == InitReg /\ [][NextReg]_vars

\* ------------------------------------------------------------------ C1
\* C1: any two distinct node ids holding a reservation have different socks
\* ports and different http ports, in every state reachable by assign,
\* release, save and reload.
C1_NoPortCollision ==
  \A a, b \in DOMAIN registry.entries :
    a # b => /\ registry.entries[a].socks_port # registry.entries[b].socks_port
             /\ registry.entries[a].http_port # registry.entries[b].http_port

\* Two nodes reserved after a release and a reload have taken place.
C1_Witness ==
  /\ Cardinality(DOMAIN registry.entries) >= 2
  /\ registry.next_socks >= BASE_SOCKS_PORT + 3
  /\ doc_ports.exists
  /\ last_call.op = "assign"

\* ------------------------------------------------------------------ C2
\* C2: assign for a node id that holds a reservation returns that node's pair
\* and leaves the entries, both next-candidate counters and the dirty flag as
\* they were; and a node present in two consecutive successful refresh calls
\* has the same ports on its endpoints after the second as after the first.
C2_AssignIdempotent ==
  /\ \A n \in DOMAIN registry.entries :
       Assign(registry, n) = [reg |-> registry,
                              socks_port |-> registry.entries[n].socks_port,
                              http_port |-> registry.entries[n].http_port]
  /\ \A t \in RefreshCallers :
       (refresher[t].pc = "returned" /\ last_done.ok) =>
         \A uid \in Range(last_done.order) \cap Range(refresher[t].order) :
           \A protocol \in SupportsProtocol :
             refresher[t].new_endpoints[EndpointId(uid, protocol)].port
               = last_done.endpoints[EndpointId(uid, protocol)].port

\* A second successful refresh with a different node list that shares a node
\* with the first, after a second port pair was allocated.
C2_Witness ==
  \E t \in RefreshCallers :
    /\ refresher[t].pc = "returned"
    /\ last_done.ok
    /\ last_done.order # refresher[t].order
    /\ Range(last_done.order) \cap Range(refresher[t].order) # {}
    /\ registry.next_socks >= BASE_SOCKS_PORT + 2

\* ------------------------------------------------------------------ C3
\* C3: when a successful refresh is followed by a successful refresh with the
\* same node list, the second builds the same endpoint ids, every endpoint
\* equal to the first refresh's except for updated_at, last_checked and
\* available, and both next-candidate counters are as the first refresh left them.
C3_IdempotentIdentity ==
  \A t \in RefreshCallers :
    (refresher[t].pc = "returned" /\ last_done.ok
     /\ last_done.order = refresher[t].order) =>
      /\ DOMAIN refresher[t].new_endpoints = DOMAIN last_done.endpoints
      /\ \A id \in DOMAIN last_done.endpoints :
           [refresher[t].new_endpoints[id] EXCEPT
              !.updated_at = last_done.endpoints[id].updated_at,
              !.last_checked = last_done.endpoints[id].last_checked,
              !.available = last_done.endpoints[id].available]
             = last_done.endpoints[id]
      /\ registry.next_socks = last_done.next_socks
      /\ registry.next_http = last_done.next_http

\* The same non-empty node list refreshed twice, the clock having advanced
\* between the two calls.
C3_Witness ==
  \E t \in RefreshCallers :
    /\ refresher[t].pc = "returned"
    /\ last_done.ok
    /\ last_done.order = refresher[t].order
    /\ \E id \in DOMAIN last_done.endpoints :
         refresher[t].new_endpoints[id].updated_at > last_done.endpoints[id].updated_at

\* ------------------------------------------------------------------ C4
\* one step keeps created_at of every node that stays live, and the step that
\* installs a refresh's node map installs nodes stamped with that refresh's now
C4_Step ==
  /\ \A uid \in (DOMAIN nodes) \cap (DOMAIN nodes') :
       nodes'[uid].created_at = nodes[uid].created_at
  /\ \A t \in RefreshCallers :
       (refresher[t].pc = "ensured" /\ refresher'[t].pc = "nodes_swapped") =>
         \A uid \in DOMAIN nodes' : nodes'[uid].updated_at = refresher[t].now

\* C4: the created_at of a node that stays in the live node map never changes,
\* whatever refresh calls the worker and a trigger make in parallel, and every
\* refresh that includes the node sets its updated_at to the refresh's timestamp.
C4_CreatedAtNeverChanges == [][C4_Step]_vars

\* ------------------------------------------------------------------ C5
\* C5: whenever no refresh holds the lock, the live endpoint map holds exactly
\* the endpoints "<uid>:<protocol>" of the live nodes and the enabled protocols.
C5_OneEndpointPerNodeProtocol ==
  lock = NoOwner =>
    /\ DOMAIN endpoints
         = {EndpointId(uid, protocol) : uid \in DOMAIN nodes, protocol \in SupportsProtocol}
    /\ \A id \in DOMAIN endpoints :
         endpoints[id].node_uid = id[1] /\ endpoints[id].protocol = id[2]

\* ------------------------------------------------------------------ C6
\* two answered select calls made with the same parameters
SameParameters(first, second) ==
  /\ first.protocols = second.protocols
  /\ first.country = second.country
  /\ first.count = second.count

\* the instant up to which the first call's selection is within its TTL
FreshUntil(first) ==
  IF first.expires # NoTime THEN first.expires ELSE first.at + Ttl

\* a non-random select call directly followed by one with the same parameters
\* that began within the TTL, no refresh call having begun in between
Repeated(i) ==
  /\ ~history[i].randomize /\ ~history[i + 1].randomize
  /\ ~history[i].raised
  /\ SameParameters(history[i], history[i + 1])
  /\ history[i + 1].began < FreshUntil(history[i])

\* C6 as stated: the second of two such calls returns the ids of the first, in
\* the same order, marked cached and with the cache entry's expiry.
C6_CacheCorrectnessAsStated ==
  \A i \in 1..(Len(history) - 1) :
    Repeated(i) =>
      /\ history[i + 1].cached
      /\ history[i + 1].ids = history[i].ids
      /\ history[i + 1].expires = history[i].expires

\* C6: the second of two such calls returns the ids of the first, in the same
\* order, marked cached and with the cache entry's expiry, provided the first
\* call returned at least one endpoint.
C6_CacheCorrectness ==
  \A i \in 1..(Len(history) - 1) :
    (Repeated(i) /\ history[i].ids # <<>>) =>
      /\ history[i + 1].cached
      /\ history[i + 1].ids = history[i].ids
      /\ history[i + 1].expires = history[i].expires

\* A select that found endpoints, repeated within the TTL.
C6_Witness ==
  \E i \in 1..(Len(history) - 1) :
    /\ Repeated(i)
    /\ history[i].ids # <<>>
    /\ ~history[i].cached
    /\ history[i + 1].cached

\* ------------------------------------------------------------------ C7
\* three endpoints pass the filter of the call
ThreeCandidates(call) ==
  Cardinality(Available(endpoints, call.protocols, call.country)) = 3

\* i < j < k are three consecutive calls answered by a fresh selection: every
\* other call from i to k was answered from the cache
ConsecutiveMisses(i, j, k) ==
  /\ i < j /\ j < k
  /\ \A n \in i..k : history[n].cached <=> n \notin {i, j, k}

\* C7 as stated: with three candidates, any three consecutive calls of the
\* repeated select(count=1, randomize=false) return three different endpoints
\* (here even with the first of them made at a later clock reading than the
\* refresh, so that no two usage timestamps tie).
C7_RotationAsStated ==
  \A i \in 1..(Len(history) - 2) :
    (/\ ThreeCandidates(history[i])
     /\ history[i].at > last_refresh
     /\ \A n \in i..(i + 2) : ~history[n].randomize /\ history[n].count = 1
     /\ SameParameters(history[i], history[i + 1])
     /\ SameParameters(history[i], history[i + 2])) =>
      Cardinality({history[n].ids : n \in i..(i + 2)}) = 3

\* C7: with three candidates, any three consecutive calls of the repeated
\* select(count=1, randomize=false) that were not answered from the cache, the
\* first of them made at a later clock reading than the refresh, return three
\* different endpoints.
C7_RotationFairness ==
  \A i, j, k \in 1..Len(history) :
    (/\ ConsecutiveMisses(i, j, k)
     /\ ThreeCandidates(history[i])
     /\ \A n \in i..k : ~history[n].randomize /\ history[n].count = 1
     /\ \A n \in i..k : SameParameters(history[i], history[n])
     /\ history[i].at > last_refresh) =>
      Cardinality({history[n].ids : n \in {i, j, k}}) = 3

\* Three fresh selections after the refresh, a cached answer among the calls.
C7_Witness ==
  \E i, j, k \in 1..Len(history) :
    /\ ConsecutiveMisses(i, j, k)
    /\ ThreeCandidates(history[i])
    /\ history[i].at > last_refresh
    /\ \E n \in 1..Len(history) : history[n].cached

\* ------------------------------------------------------------------ C8
\* C8: no select returns a cache entry (cached = true) that it read before a
\* refresh cleared the cache and returned; whatever is answered once a refresh
\* has completed is a fresh selection.
C8_NoStaleEntryAfterRefresh ==
  \A s \in SelectCallers :
    (selector[s].pc = "returned" /\ selector[s].result.cached) =>
      \A t \in RefreshCallers : <<"done", t>> \notin selector[s].during

\* ------------------------------------------------------------------ C9
\* C9: a select running beside a refresh answers from one endpoint map: it
\* neither resolves a cache entry read before the swap against the map
\* installed by the swap, nor fails on an id that the swap removed.
C9_AtomicView ==
  \A s \in SelectCallers :
    /\ selector[s].pc # "raised"
    /\ (selector[s].pc = "returned" /\ selector[s].result.cached) =>
         \A t \in RefreshCallers : <<"swap", t>> \notin selector[s].during

\* ------------------------------------------------------------------ C10
\* C10: when a refresh call has raised, the live node map, the live endpoint
\* map, the usage table, last_refresh and the three documents are what they
\* were when that call began.
C10_FailingRefreshAtomic ==
  \A t \in RefreshCallers :
    refresher[t].pc = "raised" =>
      /\ nodes = started[t].nodes
      /\ endpoints = started[t].endpoints
      /\ usage = started[t].usage
      /\ last_refresh = started[t].last_refresh
      /\ doc_nodes = started[t].doc_nodes
      /\ doc_endpoints = started[t].doc_endpoints
      /\ doc_ports = started[t].doc_ports

\* a select call that reached line 210 and cannot enter: the Manager lock is
\* held by another thread
WaitingForLock(s) == selector[s].pc = "miss" /\ lock # NoOwner

\* a refresh call between line 149 and line 166: the endpoint map is built and
\* the relay-supervisor calls (ensure for every endpoint, cleanup, or stop_all)
\* are being made, inside the `with self._lock` block
InRelayCalls(t) == refresher[t].pc = "built" /\ lock = t

\* C11: selection never blocks on the relay supervisor: in no reachable state
\* is a select call waiting for the Manager lock while the refresh that holds
\* it is making its relay-supervisor calls.
C11_SelectNeverWaitsForRelays ==
  \A s \in SelectCallers : \A t \in RefreshCallers :
    ~(WaitingForLock(s) /\ InRelayCalls(t))

\* a refresh call inside its `with self._lock` block (lines 102-181): from the
\* port release/assign to the cache clear
InMutatingPhase(t) ==
  refresher[t].pc \in {"built", "ensured", "nodes_swapped", "swapped", "stamped",
                       "nodes_saved", "endpoints_saved", "ports_saved"}

C12_Step ==
  /\ Cardinality({t \in RefreshCallers : InMutatingPhase(t)}) <= 1
  /\ \A t \in RefreshCallers :
       refresher[t].pc = "loaded" /\ refresher'[t].pc = "built"
         => \A u \in RefreshCallers \ {t} : ~InMutatingPhase(u)
  /\ \A s \in SelectCallers :
       selector[s].pc = "miss" /\ selector'[s].pc = "returned"
         => \A t \in RefreshCallers : ~InMutatingPhase(t)

\* C12: at most one refresh call is in its state-mutating phase at any time; a
\* refresh call enters that phase only when no other call is in it, and no
\* select cache-miss computation is made while a refresh call is in it.
C12_OneRefreshMutates == [][C12_Step]_vars

\* one refresh call is in its mutating phase while the other refresh call and
\* a select cache miss wait for the lock
C12_Witness ==
  \E t \in RefreshCallers : \E u \in RefreshCallers \ {t} :
    /\ InMutatingPhase(t) /\ refresher[t].pc = "swapped"
    /\ refresher[u].pc = "loaded"
    /\ \E s \in SelectCallers : selector[s].pc = "miss"

\* C13: after shutdown() has returned no managed relay is running, whatever
\* refresh call was still in flight when it was called.
C13_NoRelayAfterShutdown == stopped => relays = {}

\* what a new ProxyManager and PortRegistry constructed now would hold
Restarted ==
  [nodes |-> LoadNodesState(doc_nodes),
   endpoints |-> LoadEndpointsState(doc_endpoints),
   entries |-> RegistryLoad(doc_ports).entries,
   next_socks |-> RegistryLoad(doc_ports).next_socks,
   next_http |-> RegistryLoad(doc_ports).next_http]

\* C14: when a refresh call has returned its summary, a restart from the three
\* persisted documents yields the live node map, the live endpoint map, the
\* per-node port reservations and the next-candidate counters the Manager
\* holds.
C14_RestartRoundTrip ==
  \A t \in RefreshCallers :
    refresher[t].pc = "returned"
      => /\ Restarted.nodes = nodes
         /\ Restarted.endpoints = endpoints
         /\ Restarted.entries = registry.entries
         /\ Restarted.next_socks = registry.next_socks
         /\ Restarted.next_http = registry.next_http

\* a refresh call returned with an endpoint that was checked alive and a
\* reservation released since the first allocation
C14_Witness ==
  \E t \in RefreshCallers :
    /\ refresher[t].pc = "returned"
    /\ \E id \in DOMAIN endpoints : endpoints[id].last_checked # NoTime
    /\ registry.next_socks > BASE_SOCKS_PORT + Cardinality(DOMAIN registry.entries)

\* a save call between opening the temp file and renaming it
Writing(c) == fs.call[c].pc \in {"open", "writing", "closed"}

\* C15: where a whole document existed, a load made after the process was
\* killed during save returns that document or the one being saved, never a
\* partial, empty or default one and never an exception; and the write and
\* rename steps of two save calls on one storage object do not interleave
\* (one call at a time is between open and rename, and what it renames is the
\* whole text of its own payload).
C15_SaveIsAtomic ==
  /\ fs.last.op = "load" /\ fs.last.crashed
       => ~fs.last.raised /\ fs.last.value \in fs.last.allowed \ {NoPayload}
  /\ \A c \in StorageCallers :
       Writing(c) => /\ fs.lock = c
                     /\ \A d \in StorageCallers \ {c} : ~Writing(d)
  /\ \A c \in StorageCallers :
       fs.call[c].pc = "closed"
         => fs.files[TempPath(DocPath)] = JsonDump(fs.call[c].data)

\* a load after the process was killed while a save call had written a part
\* of its temp file over an existing document
C15_Witness ==
  /\ fs.last.op = "load" /\ fs.last.crashed
  /\ fs.files[TempPath(DocPath)].kind = "cut"
  /\ Cardinality(fs.last.allowed) > 1

\* C16: load on a missing file returns the default; on a corrupt file it
\* returns the default and the corrupt file is kept under the .invalid name
\* instead of staying in place or being lost; a save that follows leaves a
\* whole fresh document.
C16_LoadOfCorruptDocument ==
  /\ fs.last.op = "load" /\ fs.last.before.kind = "absent"
       => ~fs.last.raised /\ fs.last.value = DefaultPayload
  /\ fs.last.op = "load" /\ fs.last.before.kind \notin {"absent", "json"}
       => /\ ~fs.last.raised
          /\ fs.last.value = DefaultPayload
          /\ fs.last.backup = fs.last.before
          /\ fs.last.after = AbsentFile
  /\ fs.last.op = "save" => fs.files[DocPath] = JsonDump(fs.last.value)

\* C17: SelectionCache.get on an entry whose expires_at is not after now
\* deletes the entry and returns a miss; an unexpired entry is returned
\* unchanged and stays; so every select result marked cached carries an expiry
\* that was in the future when the cache was asked.
C17_NoExpiredEntryReturned ==
  /\ \A key \in DOMAIN cache :
       LET got == CacheGet(cache, key, clock)
       IN IF cache[key].expires_at <= clock
          THEN ~got.hit /\ key \notin DOMAIN got.entries
          ELSE got.hit /\ got.entry = cache[key] /\ got.entries = cache
  /\ \A i \in 1..Len(history) :
       history[i].cached => history[i].expires > history[i].began

\* a select call was answered from the candidates although the entry an
\* identical earlier call stored was still in the cache, expired
C17_Witness ==
  \E i \in 1..Len(history) : \E j \in (i + 1)..Len(history) :
    /\ SameParameters(history[i], history[j])
    /\ ~history[i].randomize /\ history[i].ids # <<>>
    /\ history[i].expires # NoTime
    /\ history[j].began >= history[i].expires
    /\ ~history[j].cached /\ history[j].ids # <<>>

\* the select calls that asked for the country "US", in either case
AsksForUS(call) == Upper(Strip(call.country)) = "US"

\* the endpoint is in the United States by its code or by its country name
\* compared case-insensitively with the query
InCountry(endpoint, query) ==
  \/ endpoint.country_code = Upper(Strip(query))
  \/ endpoint.country # "" /\ StrLower(endpoint.country) = StrLower(Strip(query))

\* C18: a select call with country "US" returns, on the cache-miss and on the
\* cached path, only endpoints whose country code is "US" or whose country
\* name matches; it returns an empty result, not an error, when no live
\* endpoint matches; and no call with a country filter returns an endpoint that
\* has neither country name nor code.
C18_CountryFilter ==
  \A i \in 1..Len(history) :
    LET call == history[i]
    IN /\ AsksForUS(call)
            => /\ ~call.raised
               /\ \A id \in Range(call.ids) : InCountry(endpoints[id], call.country)
               /\ (\A id \in DOMAIN endpoints : ~InCountry(endpoints[id], call.country))
                    => call.ids = <<>> /\ ~call.cached
       /\ call.country # ""
            => \A id \in Range(call.ids) :
                 endpoints[id].country # "" \/ endpoints[id].country_code # ""

\* "us" was answered from the cache entry that "US" stored, with the endpoints
\* of the node in the United States only, while a node in Japan and a node of
\* unknown country are live
C18_Witness ==
  /\ {1, 2, 3} \subseteq DOMAIN nodes
  /\ \E i \in 1..Len(history) : \E j \in (i + 1)..Len(history) :
       /\ history[i].country = "US" /\ ~history[i].cached
       /\ history[j].country = "us" /\ history[j].cached
       /\ history[j].ids # <<>>
       /\ history[j].ids = history[i].ids

\* the backend URI the i-th upstream entry produces, and whether it produces one
EntryUri(i) ==
  IF loader.source = "clash" THEN BuildBackendUriFromClash(loader.entries[i])
  ELSE ForwardUri(loader.entries[i])

EntryAccepted(i) ==
  IF loader.source = "clash" THEN ClashAccepts(loader.entries[i])
  ELSE ForwardAccepts(loader.entries[i])

\* the index of the first entry that produces the backend URI
FirstWith(uri) ==
  CHOOSE i \in 1..Len(loader.entries) :
    /\ EntryAccepted(i) /\ EntryUri(i) = uri
    /\ \A k \in 1..(i - 1) : ~(EntryAccepted(k) /\ EntryUri(k) = uri)

\* C19: the entries that produce one backend URI yield exactly one node, whose
\* uid is the hash of that URI and which is built from the first of them; the
\* node sequence has pairwise distinct uids in the order of first occurrence.
C19_Deduplication ==
  loader.parsed =>
    LET found == loader.nodes
    IN /\ \A a \in 1..Len(found) : \A b \in 1..Len(found) :
            a # b => found[a].uid # found[b].uid
       /\ \A i \in 1..Len(loader.entries) :
            EntryAccepted(i)
              => Cardinality({a \in 1..Len(found) :
                                found[a].backend_uri = EntryUri(i)}) = 1
       /\ \A a \in 1..Len(found) :
            /\ found[a].uid = Sha1(found[a].backend_uri)
            /\ \E i \in 1..Len(loader.entries) :
                 EntryAccepted(i) /\ EntryUri(i) = found[a].backend_uri
            /\ loader.source = "clash"
                 => found[a].raw = loader.entries[FirstWith(found[a].backend_uri)]
       /\ \A a \in 1..Len(found) : \A b \in 1..Len(found) :
            a < b => FirstWith(found[a].backend_uri) < FirstWith(found[b].backend_uri)

\* three Clash proxies, the third producing the backend URI of the first with
\* another option, gave two nodes
C19_Witness ==
  /\ loader.parsed /\ loader.source = "clash"
  /\ Len(loader.entries) = 3 /\ Len(loader.nodes) = 2
  /\ \A i \in 1..3 : EntryAccepted(i)
  /\ EntryUri(3) = EntryUri(1)
  /\ loader.entries[3] # loader.entries[1]

\* the select call of s makes its computation under the lock in this step and
\* finds no endpoint passing the protocol and country filter
EmptyOutcome(s) ==
  /\ selector[s].pc = "miss" /\ selector'[s].pc # "miss"
  /\ Available(endpoints, selector[s].protocols, selector[s].country) = {}

C20_Step ==
  \A s \in SelectCallers :
    EmptyOutcome(s)
      => /\ selector'[s].pc = "returned"
         /\ selector'[s].result.endpoints = <<>>
         /\ ~selector'[s].result.cached
         /\ selector'[s].result.cache_expires_at = NoTime
         /\ usage' = usage
         /\ selector[s].key \notin DOMAIN cache' \/ selector[s].randomize
         /\ \A key \in DOMAIN cache' : key \in DOMAIN cache /\ cache'[key] = cache[key]
         /\ \A key \in (DOMAIN cache) \ {selector[s].key} : key \in DOMAIN cache'
         /\ selector[s].randomize => cache' = cache

\* C20: a select call that finds the live endpoint set empty, or no endpoint
\* passing the protocol/country filter, does not raise: it returns an empty
\* endpoint list with cached=false and no cache expiry, leaves the usage table
\* unchanged, stores nothing in the cache and, in non-random mode, removes the
\* cache entry of its key.
C20_EmptyOutcome == [][C20_Step]_vars

\* a select call got an entry from the cache, found none of its endpoints
\* live, found no candidate under the lock and returned the empty result; the
\* entry is gone
C20_Witness ==
  \E s \in SelectCallers :
    /\ selector[s].pc = "returned"
    /\ selector[s].entry # NoEntry
    /\ selector[s].result = NoResult
    /\ selector[s].key \notin DOMAIN cache

\* --------------------------------------------------------------------- C21
\* the step in which the random-mode call of s runs lines 210-238
RandomSelectStep(s) ==
  /\ selector[s].randomize
  /\ selector[s].pc = "miss"
  /\ selector'[s].pc = "returned"

\* C21: a select with randomize=true neither reads nor writes the selection
\* cache and leaves the usage-timestamp table unchanged, so that the order of
\* a later non-random select is what it would have been without the call.
C21_Step ==
  \A s \in SelectCallers :
    RandomSelectStep(s) => /\ cache' = cache
                           /\ usage' = usage

C21_RandomSelectLeavesNoTrace == [][C21_Step]_vars

\* --------------------------------------------------------------------- C22
\* the ids of a cache entry that are live, in the stored order
RECURSIVE LiveIdsOf(_, _)
LiveIdsOf(ids, live_endpoints) ==
  IF ids = <<>> THEN <<>>
  ELSE (IF Head(ids) \in DOMAIN live_endpoints THEN <<Head(ids)>> ELSE <<>>)
       \o LiveIdsOf(Tail(ids), live_endpoints)

\* a step of the cached path of the call of s (lines 203-208): the lookup that
\* hits, or the resolution of one stored id
CachedPathStep(s) ==
  \/ selector[s].pc = "idle" /\ Resolving(s)'
  \/ /\ Resolving(s)
     /\ \/ selector'[s].pc # selector[s].pc
        \/ selector'[s].idx # selector[s].idx

\* C22: a non-random select served from the cache leaves the usage table, the
\* cache entry and its expiry unchanged and returns the live endpoints of the
\* stored ids in the stored order; when no stored id is live the call falls
\* through to the cache-miss path.
C22_Step ==
  \A s \in SelectCallers :
    /\ CachedPathStep(s) =>
         /\ usage' = usage
         /\ cache' = cache
         /\ Resolving(s)' => cache[selector'[s].key] = selector'[s].entry
    /\ Resolving(s) /\ ~Resolving(s)' /\ selector'[s].pc # "raised" =>
         LET me == selector[s]
             after == selector'[s]
             live == LiveIdsOf(me.entry.endpoint_ids, endpoints)
         IN IF live = <<>>
            THEN after.pc = "miss"
            ELSE /\ after.pc = "returned"
                 /\ after.result.cached
                 /\ after.result.cache_expires_at = me.entry.expires_at
                 /\ after.result.endpoints
                      = [i \in 1..Len(live) |-> endpoints[live[i]]]

C22_CachedSelectIsPure == [][C22_Step]_vars

\* a call has been served from the cache with every stored id resolved
C22_Witness ==
  \E s \in SelectCallers :
    /\ selector[s].pc = "returned"
    /\ selector[s].result.cached
    /\ Len(selector[s].result.endpoints) = 2
    /\ selector[s].key \in DOMAIN cache
    /\ cache[selector[s].key] = selector[s].entry

\* --------------------------------------------------------------------- C23
\* the live endpoint has been returned by a select call
EverReturned(id) == id \in picked

\* the step in which the non-random call of s runs lines 210-238 and finds
\* candidates
OrderedSelectStep(s) ==
  /\ ~selector[s].randomize
  /\ selector[s].pc = "miss"
  /\ selector'[s].pc = "returned"
  /\ Available(endpoints, selector[s].protocols, selector[s].country) # {}

\* C23: a non-random cache-miss select orders the candidates least recently
\* used first: a candidate never returned by a select precedes every candidate
\* that has been returned by one (two candidates with the same timestamp go by
\* ascending id), the first count candidates (all when count <= 0) are
\* returned and each returned endpoint's usage timestamp becomes the time of
\* the call.
C23_Step ==
  \A s \in SelectCallers :
    OrderedSelectStep(s) =>
      LET me == selector[s]
          available == Available(endpoints, me.protocols, me.country)
          out == selector'[s].result.endpoints
          ids == {out[i].id : i \in 1..Len(out)}
      IN /\ ids \subseteq available
         /\ Len(out) = Cardinality(ids)
         /\ Cardinality(ids) = IF me.count <= 0 \/ me.count > Cardinality(available)
                               THEN Cardinality(available) ELSE me.count
         /\ \A a \in available \ ids, b \in ids :
              IF UsageOf(usage, a) = UsageOf(usage, b) THEN IdLess(b, a)
              ELSE ~(~EverReturned(a) /\ EverReturned(b))
         /\ \A i, j \in 1..Len(out) :
              i < j =>
                IF UsageOf(usage, out[i].id) = UsageOf(usage, out[j].id)
                THEN IdLess(out[i].id, out[j].id)
                ELSE ~(EverReturned(out[i].id) /\ ~EverReturned(out[j].id))
         /\ \A id \in ids : usage'[id] = clock

C23_LeastRecentlyUsedFirst == [][C23_Step]_vars

\* --------------------------------------------------------------------- C24
\* assign and release calls alone, on one PortRegistry object that its caller
\* keeps calling (the refresh worker calls assign and release in every round)
NextRegCalls ==
  \/ \E n \in RegistryNodeIds : AssignCall(n)
  \/ \E n \in RegistryNodeIds : ReleaseCall(n)

SpecRegCalls == InitReg /\ [][NextRegCalls]_vars /\ WF_vars(NextRegCalls)

\* the assign call just made returned a port that an earlier release had freed
FreedPortReturned ==
  /\ last_call.op = "assign"
  /\ \/ last_call.socks_port \in freed
     \/ last_call.http_port \in freed

RegistryCall(op) ==
  /\ last_call'.op = op
  /\ last_call' # last_call \/ registry' # registry

CountersKept ==
  /\ registry'.next_socks = registry.next_socks
  /\ registry'.next_http = registry.next_http

CountersNotLower ==
  /\ registry'.next_socks >= registry.next_socks
  /\ registry'.next_http >= registry.next_http

\* what assign, release and save do to the counters
CountersAdvance ==
  /\ RegistryCall("release") \/ RegistryCall("save") => CountersKept
  /\ RegistryCall("assign") =>
       IF last_call'.node_id \in DOMAIN registry.entries
       THEN CountersKept
       ELSE /\ registry'.next_socks = last_call'.socks_port + 1
            /\ registry'.next_http = last_call'.http_port + 1
            /\ registry'.next_socks > registry.next_socks
            /\ registry'.next_http > registry.next_http

\* C25 as stated: under any sequence of assign, release, save and reload
\* neither next-candidate counter ever decreases; release leaves both
\* unchanged and an assign that creates a reservation sets each to one more
\* than the port it handed out.
C25_CountersNeverDecrease == [][CountersAdvance /\ CountersNotLower]_vars

\* C25: assign, release and save never decrease a next-candidate counter
\* (release and save leave both unchanged, an assign that creates a
\* reservation sets each to one more than the port it handed out); a reload
\* sets both to the values of the last save, the configured base ports when
\* nothing was saved, which are never above the values in memory.
C25_Step ==
  /\ CountersAdvance
  /\ RegistryCall("reload") =>
       /\ registry'.next_socks = RegistryLoad(doc_ports).next_socks
       /\ registry'.next_http = RegistryLoad(doc_ports).next_http
       /\ registry'.next_socks <= registry.next_socks
       /\ registry'.next_http <= registry.next_http
  /\ ~RegistryCall("reload") => CountersNotLower

C25_CountersAdvance == [][C25_Step]_vars

\* a reservation created after a release and a save, the counters past every
\* port handed out so far
C25_Witness ==
  /\ last_call.op = "assign"
  /\ registry.next_socks = last_call.socks_port + 1
  /\ registry.next_http = last_call.http_port + 1
  /\ freed # {}
  /\ doc_ports.exists
  /\ registry.next_socks > RegistryLoad(doc_ports).next_socks

\* --------------------------------------------------------------------- C26
\* the registry in memory is what a reload from storage would produce
AsStored(reg, doc) == reg = RegistryLoad(doc)

\* C26: save writes nothing when the registry is not dirty, and whenever dirty
\* is false the counters and entries in memory equal what a reload from
\* storage would produce; assign of a new node and release of a reserved node
\* set dirty, release of an unknown node and assign of a reserved node leave
\* it as it was, and a successful save clears it.
C26_Step ==
  /\ ~registry.dirty => AsStored(registry, doc_ports)
  /\ ~registry'.dirty => AsStored(registry', doc_ports')
  /\ RegistryCall("save") =>
       IF registry.dirty
       THEN /\ ~registry'.dirty
            /\ doc_ports' = StorageSave(Snapshot(registry))
       ELSE doc_ports' = doc_ports /\ registry' = registry
  /\ last_call'.op = "save" /\ ~registry.dirty => doc_ports' = doc_ports
  /\ RegistryCall("assign") =>
       IF last_call'.node_id \in DOMAIN registry.entries
       THEN registry' = registry
       ELSE registry'.dirty
  /\ RegistryCall("release") =>
       IF last_call'.node_id \in DOMAIN registry.entries
       THEN registry'.dirty
       ELSE registry' = registry

C26_DirtyFlagExact == [][C26_Step]_vars

\* a save of a registry holding a reservation, made after a release, has
\* cleared the flag
C26_Witness ==
  /\ last_call.op = "save"
  /\ ~registry.dirty
  /\ doc_ports.exists
  /\ DOMAIN registry.entries # {}
  /\ freed # {}

\* --------------------------------------------------------------------- C27
\* the answer ensure gave for the endpoint in the refresh call of t
EnsureAnswer(t, id) ==
  \E i \in 1..Len(refresher[t].glider_calls) :
    /\ refresher[t].glider_calls[i].op = "ensure"
    /\ refresher[t].glider_calls[i].ids = {id}
    /\ refresher[t].glider_calls[i].alive

\* the refresh call of t has succeeded and is about to return
Succeeded(t) == refresher[t].pc \in {"unlocked", "returned"}

\* C27: with the relay supervisor enabled, after a successful refresh every
\* live endpoint has available equal to what ensure answered for it in this
\* refresh and updated_at equal to the refresh timestamp; last_checked is the
\* refresh timestamp when ensure answered alive and otherwise the value of the
\* previous endpoint of the same id (absent if there was none); created_at is
\* carried over from the previous endpoint of the same id.
C27_EnsureOutcome ==
  \A t \in RefreshCallers :
    (Succeeded(t) /\ enable_glider) =>
      \A id \in DOMAIN endpoints :
        LET e == endpoints[id]
            previous == started[t].endpoints
            now == refresher[t].now
        IN /\ e.available = EnsureAnswer(t, id)
           /\ e.updated_at = now
           /\ e.last_checked = IF EnsureAnswer(t, id) THEN now
                               ELSE IF id \in DOMAIN previous
                                    THEN previous[id].last_checked ELSE NoTime
           /\ id \in DOMAIN previous => e.created_at = previous[id].created_at

\* a refresh has succeeded in which one relay answered alive and another,
\* alive in an earlier refresh, did not
C27_Witness ==
  \E t \in RefreshCallers :
    /\ Succeeded(t) /\ enable_glider
    /\ \E a, b \in DOMAIN endpoints :
         /\ EnsureAnswer(t, a)
         /\ ~EnsureAnswer(t, b)
         /\ endpoints[b].last_checked # NoTime
         /\ endpoints[b].last_checked < refresher[t].now

\* --------------------------------------------------------------------- C28
\* the refresh call of t has finished its calls to the relay supervisor
PastRelayCalls(t) ==
  refresher[t].pc \in {"ensured", "nodes_swapped", "swapped", "stamped", "nodes_saved",
                       "endpoints_saved", "ports_saved", "unlocked", "returned"}

\* C28: a refresh with the relay supervisor enabled calls cleanup exactly
\* once, after an ensure call for every new endpoint, with exactly the ids of
\* the new endpoint map; after a successful refresh the supervisor manages no
\* relay of an endpoint that is not live, and it was not asked to remove the
\* relay of an endpoint that stays live.
C28_CleanupAfterEnsure ==
  \A t \in RefreshCallers :
    /\ (PastRelayCalls(t) /\ enable_glider) =>
         LET calls == refresher[t].glider_calls
             new_ids == DOMAIN refresher[t].new_endpoints
             last == calls[Len(calls)]
         IN /\ Len(calls) = Cardinality(new_ids) + 1
            /\ last.op = "cleanup"
            /\ last.ids = new_ids
            /\ \A i \in 1..(Len(calls) - 1) : calls[i].op = "ensure"
            /\ \A id \in new_ids :
                 Cardinality({i \in 1..(Len(calls) - 1) : calls[i].ids = {id}}) = 1
    /\ (Succeeded(t) /\ enable_glider) =>
         /\ relays \subseteq DOMAIN endpoints
         /\ DOMAIN endpoints \subseteq refresher[t].glider_calls[Len(refresher[t].glider_calls)].ids

\* a refresh has succeeded that dropped one node and kept another: the relays
\* of the dropped node are gone, those of the kept node are managed
C28_Witness ==
  \E t \in RefreshCallers :
    /\ Succeeded(t) /\ enable_glider
    /\ DOMAIN endpoints # {}
    /\ DOMAIN started[t].endpoints \cap DOMAIN endpoints # {}
    /\ DOMAIN started[t].endpoints \ DOMAIN endpoints # {}
    /\ relays # {}

\* --------------------------------------------------------------------- C29
\* Refresh calls made one at a time on a data directory that outlives the
\* process: a restart may come with the relay supervisor switched on or off
\* (Settings.enable_glider is read from the environment at start).
NextDisabled ==
  \/ MayTick /\ Tick
  \/ \E enabled \in BOOLEAN : AllIdle /\ RestartAs(enabled)
  \/ \E list \in NodeLists(NodeIds) :
       AllIdle /\ MayRefresh /\ RefreshLoad("trigger", list)
  \/ RefreshSteps("trigger")

SpecDisabled == Init /\ [][NextDisabled]_vars

\* C29: with the relay supervisor disabled a refresh calls stop_all and
\* neither ensure nor cleanup, and after it every live endpoint has available
\* false, whatever value was carried over, and the last_checked carried over
\* from the previous endpoint of the same id.
C29_DisabledSupervisor ==
  \A t \in RefreshCallers :
    /\ (PastRelayCalls(t) /\ ~enable_glider) =>
         /\ Len(refresher[t].glider_calls) = 1
         /\ refresher[t].glider_calls[1].op = "stop_all"
    /\ (Succeeded(t) /\ ~enable_glider) =>
         \A id \in DOMAIN endpoints :
           LET previous == started[t].endpoints
           IN /\ ~endpoints[id].available
              /\ endpoints[id].last_checked =
                   IF id \in DOMAIN previous THEN previous[id].last_checked ELSE NoTime

\* a refresh with the supervisor disabled has succeeded over an endpoint that
\* was available, with a probe on record, before it
C29_Witness ==
  \E t \in RefreshCallers :
    /\ Succeeded(t) /\ ~enable_glider
    /\ \E id \in DOMAIN endpoints \cap DOMAIN started[t].endpoints :
         /\ started[t].endpoints[id].available
         /\ started[t].endpoints[id].last_checked # NoTime
         /\ ~endpoints[id].available

\* --------------------------------------------------------------------- C30
\* Refresh and select calls made one at a time over one node, where a save of
\* a refresh may raise and the process may be started again between calls.
NextTracked ==
  \/ NextStale
  \/ AllIdle /\ Restart

SpecTracked == Init /\ [][NextTracked]_vars

\* C30: the usage table tracks exactly the live endpoints: after construction,
\* after every successful refresh and after every select (whenever no refresh
\* is inside its locked section) the ids with a usage timestamp are the ids of
\* the live endpoints.
C30_UsageTracksLive ==
  LockFree(lock) => DOMAIN usage = DOMAIN endpoints

\* a select has stamped the endpoints it returned, after two refresh calls
C30_Witness ==
  /\ LockFree(lock)
  /\ spent.refreshes = 2
  /\ \E s \in SelectCallers :
       /\ selector[s].pc = "returned"
       /\ ~selector[s].result.cached
       /\ selector[s].result.endpoints # <<>>
  /\ DOMAIN usage # {}

\* --------------------------------------------------------------------- C31
\* A lookup that inserts what it does not find (dict.setdefault for dict.get).
NodesGetInserts(live_nodes, uid) ==
  [nodes |-> IF uid \in DOMAIN live_nodes THEN live_nodes
             ELSE Put(live_nodes, uid,
                      [uid |-> uid, country |-> "", country_code |-> "",
                       created_at |-> NoTime, updated_at |-> NoTime]),
   value |-> IF uid \in DOMAIN live_nodes THEN {live_nodes[uid]} ELSE {}]

\* self._nodes.get(node_uid): the map after the lookup and the node found, if any
NodesGet(live_nodes, uid) ==
  [nodes |-> live_nodes,
   value |-> IF uid \in DOMAIN live_nodes THEN {live_nodes[uid]} ELSE {}]

\* ProxyManager.get_node, lines 240-242, under the lock
GetNode(uid) ==
  /\ LockFree(lock)
  /\ LET got == NodesGet(nodes, uid)
     IN /\ nodes' = got.nodes
        /\ reply' = [NoReply EXCEPT !.op = "get_node", !.uid = uid, !.node = got.value]
  /\ UNCHANGED <<regVars, endpoints, usage, last_refresh, cache, doc_nodes,
                 doc_endpoints, relays, enable_glider, worker, picked, stopped, fs, loader,
                 clock, lock, refresher, selector, started, last_done, history, spent>>

\* ProxyManager.status, lines 244-251, under the lock (the diagnostic map of
\* the relay supervisor is left out)
Status ==
  /\ LockFree(lock)
  /\ reply' = [NoReply EXCEPT !.op = "status",
                              !.nodes = Cardinality(DOMAIN nodes),
                              !.endpoints = Cardinality(DOMAIN endpoints),
                              !.last_refresh = last_refresh]
  /\ UNCHANGED <<regVars, nodes, endpoints, usage, last_refresh, cache, doc_nodes,
                 doc_endpoints, relays, enable_glider, worker, picked, stopped, fs, loader,
                 clock, lock, refresher, selector, started, last_done, history, spent>>

\* ProxyManager.last_refresh_at, lines 253-254, without the lock
LastRefreshAt ==
  /\ reply' = [NoReply EXCEPT !.op = "last_refresh_at", !.last_refresh = last_refresh]
  /\ UNCHANGED <<regVars, nodes, endpoints, usage, last_refresh, cache, doc_nodes,
                 doc_endpoints, relays, enable_glider, worker, picked, stopped, fs, loader,
                 clock, lock, refresher, selector, started, last_done, history, spent>>

\* A refresh of one upstream node while a client selects and the read-only
\* calls are made, the threads interleaved at every step.
NextReaders ==
  \/ MayTick /\ Tick
  \/ \E list \in NodeLists(ConcNodeIds) :
       spent.refreshes < MaxReaderRefreshes /\ RefreshLoad("trigger", list)
  \/ RefreshSteps("trigger")
  \/ \E p \in ConcSelects :
       MaySelect /\ SelectStart("client", p.protocols, p.country, p.count, p.randomize)
  \/ SelectSteps("client")
  \/ \E uid \in NodeIds : GetNode(uid)
  \/ Status
  \/ LastRefreshAt

SpecReaders == Init /\ [][NextReaders]_vars

\* the step belongs to a select call or to a read-only call
ReadOnlyStep ==
  \/ reply' # reply
  \/ \E s \in SelectCallers :
       \/ selector'[s].pc # selector[s].pc
       \/ selector'[s].idx # selector[s].idx

\* C31: no step of select, get_node, status or last_refresh_at changes the
\* live node map, the live endpoint map (so no endpoint's available,
\* last_checked or port), the port registry, last_refresh or a persisted
\* document.
C31_Step ==
  ReadOnlyStep =>
    /\ nodes' = nodes
    /\ endpoints' = endpoints
    /\ registry' = registry
    /\ last_refresh' = last_refresh
    /\ doc_nodes' = doc_nodes
    /\ doc_endpoints' = doc_endpoints
    /\ doc_ports' = doc_ports

C31_ReadersMutateNothing == [][C31_Step]_vars

\* get_node has found a node after a select returned live endpoints
C31_Witness ==
  /\ reply.op = "get_node"
  /\ reply.node # {}
  /\ last_refresh # NoTime
  /\ \E i \in 1..Len(history) : history[i].ids # <<>>

\* --------------------------------------------------------------------- C32
\* C32: after every successful refresh, also one that follows a failed
\* refresh or a restart, the node ids holding a port reservation are exactly
\* the uids of the live nodes.
C32_ReservationsMatchLiveNodes ==
  \A t \in RefreshCallers :
    Succeeded(t) => DOMAIN registry.entries = DOMAIN nodes


\* the requests of the cache-key specification: permutations of one protocol
\* list, an empty list, a proper sublist, a country in two letter cases, two
\* counts, one protocol in two letter cases, and one random request
KeySelects ==
  {[protocols |-> <<"socks5", "http">>, country |-> "US", count |-> 1, randomize |-> FALSE],
   [protocols |-> <<"http", "socks5">>, country |-> "us", count |-> 1, randomize |-> FALSE],
   [protocols |-> <<>>, country |-> "us", count |-> 1, randomize |-> FALSE],
   [protocols |-> <<"socks5">>, country |-> "us", count |-> 1, randomize |-> FALSE],
   [protocols |-> <<"SOCKS5">>, country |-> "us", count |-> 1, randomize |-> FALSE],
   [protocols |-> <<"http", "socks5">>, country |-> "us", count |-> 0, randomize |-> FALSE],
   [protocols |-> <<"http", "socks5">>, country |-> "US", count |-> 1, randomize |-> TRUE]}

\* One caller selects with these requests, one call at a time, while explicit
\* refreshes replace the node list.
NextKeys ==
  \/ MayTick /\ Tick
  \/ \E list \in NodeLists(ConcNodeIds) :
       AllIdle /\ MayRefresh /\ RefreshLoad("trigger", list)
  \/ RefreshSteps("trigger")
  \/ \E p \in KeySelects :
       /\ AllIdle /\ MaySelect
       /\ SelectStart("client", p.protocols, p.country, p.count, p.randomize)
  \/ SelectSteps("client")

SpecKeys == Init /\ [][NextKeys]_vars

\* the protocols a finished select asked for, as a set of protocol names in
\* lower case; an empty list asks for every enabled protocol
AskedSet(call) ==
  IF call.asked = <<>> THEN {ENABLED_PROTOCOLS[i] : i \in DOMAIN ENABLED_PROTOCOLS}
  ELSE {StrLower(call.asked[i]) : i \in DOMAIN call.asked}

\* one list is a permutation of the other
Permutation(first, second) ==
  /\ Len(first) = Len(second)
  /\ \A item \in {first[i] : i \in DOMAIN first} \cup {second[i] : i \in DOMAIN second} :
       Cardinality({i \in DOMAIN first : first[i] = item})
         = Cardinality({i \in DOMAIN second : second[i] = item})

\* two country filters differ at most in letter case
SameLetters(first, second) ==
  \/ first = second
  \/ {first, second} = {"US", "us"}
  \/ {first, second} = {"JP", "jp"}

\* two finished selects name the same protocols: one list permutes the other,
\* or one is empty and the other lists every enabled protocol
SameProtocols(first, second) ==
  \/ Permutation(first.asked, second.asked)
  \/ first.asked = <<>> /\ Permutation(second.asked, ENABLED_PROTOCOLS)
  \/ second.asked = <<>> /\ Permutation(first.asked, ENABLED_PROTOCOLS)

\* C33: two non-random selects whose protocol lists permute each other (an
\* empty list standing for the list of all enabled protocols), whose country
\* filters differ only in letter case and whose counts are equal use one cache
\* key; selects that differ in count or in the protocol set use different keys.
C33_CacheKeySharing ==
  \A i, j \in DOMAIN history :
    (~history[i].randomize /\ ~history[j].randomize) =>
      /\ ( /\ SameProtocols(history[i], history[j])
           /\ SameLetters(history[i].country, history[j].country)
           /\ history[i].count = history[j].count )
         => history[i].key = history[j].key
      /\ ( \/ history[i].count # history[j].count
           \/ AskedSet(history[i]) # AskedSet(history[j]) )
         => history[i].key # history[j].key

\* A select served from the entry that a select with the protocols in another
\* order and the country in another case stored.
C33_Witness ==
  /\ Len(history) = 2
  /\ history[1].asked = <<"socks5", "http">> /\ history[1].country = "US"
  /\ history[2].asked = <<"http", "socks5">> /\ history[2].country = "us"
  /\ ~history[1].cached /\ history[2].cached
  /\ history[2].ids = history[1].ids

\* A select with an empty protocol list served from the entry of a select that
\* listed every enabled protocol.
C33_WitnessDefault ==
  /\ Len(history) = 2
  /\ history[1].asked = <<"socks5", "http">>
  /\ history[2].asked = <<>>
  /\ history[2].cached


\* The registry of an instance that has run for a long time: node 1 holds the
\* first reservation of each family, and PortGap reservations have been made
\* in all, the others released again as their nodes left the node list.
WornRegistry ==
  [entries |-> Put(EmptyMap, 1, [socks_port |-> BASE_SOCKS_PORT,
                                 http_port |-> BASE_HTTP_PORT]),
   next_socks |-> BASE_SOCKS_PORT + PortGap,
   next_http |-> BASE_HTTP_PORT + PortGap,
   dirty |-> TRUE]

\* the node map and the endpoint map of that instance
WornNodes == NewNodes(<<1>>, EmptyMap, 1)

WornEndpoints ==
  NewEndpoints(WornNodes,
               Put(EmptyMap, 1, [socks5 |-> BASE_SOCKS_PORT, http |-> BASE_HTTP_PORT]),
               EmptyMap, 1)

\* The instance starts from the three documents its last refresh saved.
InitWorn ==
  /\ doc_ports = Save(WornRegistry, MissingDoc).doc
  /\ doc_nodes = StorageSave(NodesPayload(WornNodes))
  /\ doc_endpoints = StorageSave(EndpointsPayload(WornEndpoints))
  /\ registry = RegistryLoad(doc_ports)
  /\ last_call = NoCall
  /\ freed = {}
  /\ nodes = LoadNodesState(doc_nodes)
  /\ endpoints = LoadEndpointsState(doc_endpoints)
  /\ usage = UsageSetDefault(EmptyMap, endpoints)
  /\ last_refresh = NoTime
  /\ cache = EmptyMap
  /\ relays = {}
  /\ enable_glider = TRUE
  /\ reply = NoReply
  /\ worker = NotStarted
  /\ picked = {}
  /\ clock = 1
  /\ lock = NoOwner
  /\ refresher = [t \in RefreshCallers |-> IdleRefresher]
  /\ selector = [s \in SelectCallers |-> IdleSelector]
  /\ started = [t \in RefreshCallers |-> NoSnapshot]
  /\ last_done = NoneDone
  /\ history = <<>>
  /\ spent = [faults |-> 0, refreshes |-> 0, selects |-> 0]
  /\ stopped = FALSE
  /\ fs = NoFiles
  /\ loader = NoParse

\* Explicit refreshes, one at a time and none raising, replace the node list.
NextWorn ==
  \/ MayTick /\ Tick
  \/ \E list \in NodeLists(NodeIds) :
       AllIdle /\ MayRefresh /\ RefreshLoad("trigger", list)
  \/ RefreshSteps("trigger")

SpecWorn == InitWorn /\ [][NextWorn]_vars

\* C34: any two distinct live endpoints, of the same or of different protocols
\* and nodes, have different ports.
C34_LivePortsDistinct ==
  \A first, second \in DOMAIN endpoints :
    first # second => endpoints[first].port # endpoints[second].port


\* a step that keeps lastRefresh or moves it to a later instant
LastRefreshKeptOrLater ==
  last_refresh # NoTime => (last_refresh' # NoTime /\ last_refresh' >= last_refresh)

\* C35: over any interleaving of refresh calls on one manager the value of
\* lastRefresh never moves to an earlier instant, and outside a refresh's locked
\* region no live endpoint's updatedAt is later than lastRefresh.
C35_LastRefreshMonotonic ==
  [][ /\ LastRefreshKeptOrLater
      /\ (LockFree(lock') /\ last_refresh' # NoTime) =>
           \A id \in DOMAIN endpoints' : endpoints'[id].updated_at <= last_refresh' ]_vars


\* C36: the summary a refresh call returns gives the sizes of the node map and
\* the endpoint map this call committed and the lastRefresh it stamped, also
\* when another refresh runs at the same time.
C36_SummaryDescribesOwnRefresh ==
  \A t \in RefreshCallers :
    refresher[t].pc = "returned" =>
      /\ refresher[t].summary.nodes = Cardinality(DOMAIN refresher[t].new_nodes)
      /\ refresher[t].summary.endpoints = Cardinality(DOMAIN refresher[t].new_endpoints)
      /\ refresher[t].summary.refreshed_at = refresher[t].now


\* the port the registry reserves for an endpoint's node and protocol family
\* (0 when the node has no reservation)
ReservedPort(reg, id) ==
  IF id[1] \notin DOMAIN reg.entries THEN 0
  ELSE IF id[2] = "socks5" THEN reg.entries[id[1]].socks_port
       ELSE reg.entries[id[1]].http_port

\* C37: whenever no refresh is inside its locked region, every live endpoint's
\* port is the port the registry reserves for the endpoint's node and protocol
\* family, also after a refresh that failed.
C37_EndpointPortsReserved ==
  LockFree(lock) =>
    \A id \in DOMAIN endpoints : endpoints[id].port = ReservedPort(registry, id)


\* a refresh call stands between its node save and its port save
BetweenSaves ==
  \E t \in RefreshCallers : refresher[t].pc \in {"nodes_saved", "endpoints_saved"}

\* the loaded state is consistent: every endpoint refers to a loaded node, every
\* node has its enabled-protocol endpoints, and every endpoint's port is the
\* loaded registry's reservation for its node
LoadedConsistent ==
  /\ \A id \in DOMAIN endpoints : endpoints[id].node_uid \in DOMAIN nodes
  /\ \A uid \in DOMAIN nodes : \A protocol \in SupportsProtocol :
       EndpointId(uid, protocol) \in DOMAIN endpoints
  /\ \A id \in DOMAIN endpoints : endpoints[id].port = ReservedPort(registry, id)

\* C38: when the process stops between the node save and the port save of a
\* refresh, the state loaded by the restart is consistent.
C38_ConsistentAfterCrash ==
  [][(Restart /\ BetweenSaves) => LoadedConsistent']_vars


\* ------------------------------------------------------------ RefreshWorker
\* Settings.refresh_interval_seconds
REFRESH_INTERVAL_SECONDS == 2

\* the instants and the refreshes of the worker specification
MaxWorkerClock == 5

MaxWorkerRefreshes == 2

\* RefreshWorker.__init__: self.interval = max(interval, 1)
Interval == IF REFRESH_INTERVAL_SECONDS > 1 THEN REFRESH_INTERVAL_SECONDS ELSE 1

\* A faulty wait: it gives up at once.
EventWaitNoDelay(stop, since, now) ==
  IF stop THEN "set" ELSE "timeout"

\* self._stop.wait(self.interval), begun at `since` and seen at `now`: it
\* returns True once the event is set, False once the interval has passed with
\* the event clear, and blocks until then
EventWait(stop, since, now) ==
  IF stop THEN "set"
  ELSE IF now >= since + Interval THEN "timeout" ELSE "blocked"

\* what the worker actions leave alone
workerRest == <<regVars, nodes, endpoints, usage, last_refresh, cache, doc_nodes,
                doc_endpoints, relays, enable_glider, reply, picked, stopped, fs,
                loader, clock, lock, refresher, selector, started, last_done,
                history, spent>>

\* refresh_worker.start(): run() enters its first wait
WorkerStart ==
  /\ worker.pc = "unstarted"
  /\ worker' = [worker EXCEPT !.pc = "waiting", !.since = clock]
  /\ UNCHANGED workerRest

\* the wait returns False: the loop body is entered
WorkerTimeout ==
  /\ worker.pc = "waiting"
  /\ EventWait(worker.stop, worker.since, clock) = "timeout"
  /\ worker' = [worker EXCEPT !.pc = "due"]
  /\ UNCHANGED workerRest

\* the wait returns True: the loop and run() end
WorkerEnd ==
  /\ worker.pc = "waiting"
  /\ EventWait(worker.stop, worker.since, clock) = "set"
  /\ worker' = [worker EXCEPT !.pc = "terminated"]
  /\ UNCHANGED workerRest

\* the loop body calls self.manager.refresh()
WorkerRefresh(list) ==
  /\ worker.pc = "due"
  /\ RefreshLoad("worker", list)

\* refresh returned or raised (the exception is logged): the next wait begins
WorkerLoop ==
  /\ worker.pc = "due"
  /\ refresher["worker"].pc \in {"returned", "raised"}
  /\ last_done' = IF refresher["worker"].pc = "returned"
                  THEN [ok |-> TRUE, order |-> refresher["worker"].order,
                        endpoints |-> refresher["worker"].new_endpoints,
                        next_socks |-> registry.next_socks,
                        next_http |-> registry.next_http]
                  ELSE NoneDone
  /\ refresher' = [refresher EXCEPT !["worker"] = IdleRefresher]
  /\ started' = [started EXCEPT !["worker"] = NoSnapshot]
  /\ worker' = [worker EXCEPT !.pc = "waiting", !.since = clock]
  /\ UNCHANGED <<regVars, nodes, endpoints, usage, last_refresh, cache, doc_nodes,
                 doc_endpoints, relays, enable_glider, reply, picked, stopped, fs,
                 loader, clock, lock, selector, history, spent>>

\* RefreshWorker.stop, from the shutdown handler
WorkerStop ==
  /\ worker.pc # "unstarted"
  /\ ~worker.stop
  /\ worker' = [worker EXCEPT !.stop = TRUE]
  /\ UNCHANGED workerRest

\* the steps of the worker's thread
WorkerSteps ==
  \/ WorkerStart
  \/ spent.refreshes < MaxWorkerRefreshes /\ WorkerTimeout
  \/ WorkerEnd
  \/ \E list \in NodeLists(ConcNodeIds) : WorkerRefresh(list)
  \/ refresher["worker"].pc \notin {"returned", "raised"} /\ RefreshSteps("worker")
  \/ WorkerLoop

\* The worker's thread runs while time passes, a refresh may raise and the
\* shutdown handler may call stop at any moment.
NextWorker ==
  \/ clock < MaxWorkerClock /\ Tick
  \/ WorkerSteps
  \/ \E k \in 0..(2 * Cardinality(ConcNodeIds)) :
       MayRaise /\ RefreshEnsureRaises("worker", k)
  \/ WorkerStop

\* The thread is scheduled: a step it can take is taken in the end.
SpecWorker == Init /\ [][NextWorker]_vars /\ WF_vars(WorkerSteps)


\* a step in which the worker's thread begins a refresh
WorkerBeginsRefresh ==
  refresher["worker"].pc = "idle" /\ refresher'["worker"].pc = "loaded"

\* a step in which a wait of the worker times out
WorkerWaitTimesOut == worker.pc = "waiting" /\ worker'.pc = "due"

\* The worker's refreshes come one at a time, each a full interval after the
\* thread started or the refresh before it ended, and a refresh that raised
\* leaves the thread running.
WorkerPaced ==
  /\ worker.pc \in {"unstarted", "waiting", "terminated"}
       => refresher["worker"].pc = "idle"
  /\ refresher["worker"].pc # "idle"
       => refresher["worker"].now >= worker.since + Interval
  /\ refresher["worker"].pc = "raised" => worker.pc = "due"

\* once stop was called, the thread terminates
WorkerTerminates == worker.stop ~> worker.pc = "terminated"

\* after a refresh that raised the thread waits again or has been stopped
WorkerSurvives ==
  refresher["worker"].pc = "raised" ~> worker.pc \in {"waiting", "terminated"}

\* C39 as stated: the worker runs one refresh at a time, a full interval apart,
\* survives a refresh that raises, begins no refresh once stop() was called, and
\* terminates in the end.
C39_WorkerAsStated ==
  /\ []WorkerPaced
  /\ WorkerSurvives
  /\ [][WorkerBeginsRefresh => ~worker.stop]_vars
  /\ WorkerTerminates

\* C39: the worker runs one refresh at a time, a full interval apart, survives
\* a refresh that raises, and once stop() was called no wait times out any more:
\* the only refresh it can still begin is the one whose wait had timed out
\* before stop() was called; the thread terminates in the end.
C39_WorkerStops ==
  /\ []WorkerPaced
  /\ WorkerSurvives
  /\ [][WorkerWaitTimesOut => ~worker.stop]_vars
  /\ WorkerTerminates

\* The worker has run two refreshes, one of which raised, was stopped and has
\* terminated.
C39_Witness ==
  /\ worker.pc = "terminated" /\ worker.stop
  /\ spent.refreshes = MaxWorkerRefreshes /\ spent.faults = 1

\* A refresh begun after stop() was called.
C39_WitnessLateRefresh ==
  worker.stop /\ worker.pc = "due" /\ refresher["worker"].pc = "loaded"


\* every reserved port of a registry is strictly below its family's counter
ReservedBelowCounters(reg) ==
  \A n \in DOMAIN reg.entries :
    /\ reg.entries[n].socks_port < reg.next_socks
    /\ reg.entries[n].http_port < reg.next_http

\* an assign call in which node n receives a new reservation
NewReservation(n) ==
  /\ RegistryCall("assign") /\ last_call'.node_id = n
  /\ n \notin DOMAIN registry.entries /\ n \in DOMAIN registry'.entries

\* C40: in every state reached from an empty registry or from one loaded from
\* its own saved document, every reserved port is strictly below its family's
\* next-candidate counter, and each new reservation receives exactly the
\* counter values of the two families at the time of the call.
C40_ReservedBelowCounters ==
  /\ [](ReservedBelowCounters(registry) /\ ReservedBelowCounters(RegistryLoad(doc_ports)))
  /\ [][\A n \in RegistryNodeIds :
          NewReservation(n) =>
            /\ registry'.entries[n].socks_port = registry.next_socks
            /\ registry'.entries[n].http_port = registry.next_http]_vars

\* A reservation made after a release, by a registry loaded from its own saved
\* document.
C40_Witness ==
  /\ last_call.op = "assign"
  /\ last_call.socks_port > BASE_SOCKS_PORT + Cardinality(DOMAIN registry.entries)
  /\ doc_ports.exists
  /\ RegistryLoad(doc_ports).entries # EmptyMap
  /\ last_call.node_id \notin DOMAIN RegistryLoad(doc_ports).entries

====
